---- MODULE Spec2Model ----
(***************************************************************************)
(* DingerStats: the inning-chime detection engine.                         *)
(*                                                                         *)
(* The repository fixes its numbers as literals (sample rate 22050, a      *)
(* 60 s or 90 s refractory gap, 9 expected events, ...).  The operators    *)
(* below take those numbers as parameters and the specifications run them  *)
(* at small values, so that every trace, candidate list and event list of  *)
(* the bounded sizes is enumerated.                                        *)
(*                                                                         *)
(* Samples and scores are exact: a floating-point buffer is a sequence of  *)
(* integer numerators over one positive denominator; a buffer that numpy   *)
(* fills with not-a-number (0/0) carries nan = TRUE.                       *)
(***************************************************************************)
EXTENDS Integers, Sequences, FiniteSets, TLC

VARIABLES peak, cons, lib, build, run, post, matcher, filt, gemini, pipeline

vars == <<peak, cons, lib, build, run, post, matcher, filt, gemini, pipeline>>

(***************************************************************************)
(* Bounds of the model.                                                    *)
(***************************************************************************)
MaxTraceLen == 5
MaxScore == 2

SampleRates == {1, 2}
MinGapChoices == {1, 2}
Percentiles == {0, 500, 997}

(***************************************************************************)
(* Arithmetic helpers.                                                     *)
(***************************************************************************)
Abs(x) == IF x < 0 THEN -x ELSE x

Max2(a, b) == IF a >= b THEN a ELSE b

Min2(a, b) == IF a <= b THEN a ELSE b

RECURSIVE SeqSum(_)
SeqSum(s) == IF s = <<>> THEN 0 ELSE Head(s) + SeqSum(Tail(s))

\* np.max(np.abs(x)) of a non-empty buffer.
RECURSIVE MaxAbs(_)
MaxAbs(s) == IF s = <<>> THEN 0 ELSE Max2(Abs(Head(s)), MaxAbs(Tail(s)))

RECURSIVE InsertSorted(_, _)
InsertSorted(x, s) ==
    IF s = <<>> THEN <<x>>
    ELSE IF x <= Head(s) THEN <<x>> \o s
    ELSE <<Head(s)>> \o InsertSorted(x, Tail(s))

RECURSIVE SortInts(_)
SortInts(s) == IF s = <<>> THEN <<>> ELSE InsertSorted(Head(s), SortInts(Tail(s)))

\* The elements of a set of integers as an ascending sequence.
RECURSIVE SetToSortedSeq(_)
SetToSortedSeq(S) ==
    IF S = {} THEN <<>>
    ELSE LET m == CHOOSE x \in S : \A y \in S : x <= y
         IN <<m>> \o SetToSortedSeq(S \ {m})

(***************************************************************************)
(* Peak Extractor: np.percentile and scipy.signal.find_peaks as the        *)
(* detectors call them (height = threshold, distance = min_gap_samples).   *)
(* A trace is [nan, v]: v the score numerators, nan = every entry is NaN.  *)
(* A threshold is [nan, m]: the value m / 1000.                            *)
(***************************************************************************)

\* np.percentile(correlation, p / 10): linear interpolation between the two
\* order statistics around position (n - 1) * p / 1000; NaN for a NaN trace.
Percentile(trace, p) ==
    IF trace.nan THEN [nan |-> TRUE, m |-> 0]
    ELSE LET s == SortInts(trace.v)
             pos == (Len(s) - 1) * p
             lo == (pos \div 1000) + 1
             fr == pos % 1000
         IN [nan |-> FALSE,
             m |-> IF fr = 0 THEN 1000 * s[lo]
                   ELSE 1000 * s[lo] + fr * (s[lo + 1] - s[lo])]

\* min_gap_samples = int(min_gap_seconds * sr)
MinGapSamples(min_gap_seconds, sr) == min_gap_seconds * sr

\* Every entry that no neighbour exceeds, the first and the last index
\* included.
LocalMaximaWithEnds(trace) ==
    IF trace.nan THEN {}
    ELSE { m \in 1..Len(trace.v) :
             /\ m > 1 => trace.v[m - 1] <= trace.v[m]
             /\ m < Len(trace.v) => trace.v[m + 1] <= trace.v[m] }

\* find_peaks, step 1 (_local_maxima_1d): the midpoint of every plateau that
\* is strictly higher than both its neighbours; never the first or the last
\* index.  Every comparison with NaN is false, so a NaN trace has no maximum.
\* Indices are 1-based here; the code's index is one less.
LocalMaxima(trace) ==
    IF trace.nan THEN {}
    ELSE LET x == trace.v
             n == Len(x)
         IN { m \in 2..(n - 1) :
                \E l \in 2..m : \E r \in m..(n - 1) :
                    /\ \A i \in l..r : x[i] = x[l]
                    /\ x[l - 1] < x[l]
                    /\ x[r + 1] < x[r]
                    /\ m = (l + r) \div 2 }

AboveHeightReversed(trace, thr, P) ==
    IF thr.nan THEN {}
    ELSE { m \in P : thr.m >= 1000 * trace.v[m] }

\* find_peaks, step 2 (height): keep the maxima with threshold <= height.
AboveHeight(trace, thr, P) ==
    IF thr.nan THEN {}
    ELSE { m \in P : thr.m <= 1000 * trace.v[m] }

\* The order in which _select_by_peak_distance visits the peaks: argsort of
\* the heights read from its end, so highest first and, among equal heights,
\* the later peak first.
RECURSIVE VisitOrder(_, _)
VisitOrder(trace, P) ==
    IF P = {} THEN <<>>
    ELSE LET j == CHOOSE a \in P : \A b \in P :
                     \/ trace.v[a] > trace.v[b]
                     \/ (trace.v[a] = trace.v[b] /\ a >= b)
         IN <<j>> \o VisitOrder(trace, P \ {j})

RECURSIVE SuppressLoop(_, _, _)
SuppressLoop(order, keep, distance) ==
    IF order = <<>> THEN keep
    ELSE LET j == Head(order)
         IN IF j \notin keep THEN SuppressLoop(Tail(order), keep, distance)
            ELSE SuppressLoop(Tail(order),
                              { k \in keep : k = j \/ Abs(k - j) >= distance },
                              distance)

SelectAllPeaks(trace, P, distance) == P

\* find_peaks, step 3 (distance): a kept peak removes every peak closer
\* than `distance` samples to it, peaks being visited highest first.
SelectByPeakDistance(trace, P, distance) ==
    SuppressLoop(VisitOrder(trace, P), P, distance)

\* signal.find_peaks(correlation, height=threshold, distance=min_gap_samples)
FindPeaks(trace, thr, distance) ==
    SelectByPeakDistance(trace, AboveHeight(trace, thr, LocalMaxima(trace)), distance)

\* ExtractCandidates falling back on the highest entry of the trace when no
\* peak is found.
ExtractCandidatesOrBest(trace, thr, distance) ==
    IF FindPeaks(trace, thr, distance) # {} \/ trace.nan
    THEN LET idx == SetToSortedSeq(FindPeaks(trace, thr, distance))
         IN [i \in 1..Len(idx) |-> [idx |-> idx[i] - 1, score |-> trace.v[idx[i]]]]
    ELSE LET b == CHOOSE a \in 1..Len(trace.v) :
                     \A c \in 1..Len(trace.v) : trace.v[a] >= trace.v[c]
         IN << [idx |-> b - 1, score |-> trace.v[b]] >>

\* The detection list of one template: (idx, correlation[idx]) for every
\* peak, in index order; time_sec = idx / sr.
ExtractCandidates(trace, thr, distance) ==
    LET idx == SetToSortedSeq(FindPeaks(trace, thr, distance))
    IN [i \in 1..Len(idx) |-> [idx |-> idx[i] - 1, score |-> trace.v[idx[i]]]]

(***************************************************************************)
(* Specification SpecPeak: one trace, two percentiles p1 <= p2, one gap.   *)
(***************************************************************************)
Idle == [pc |-> "idle"]

Traces ==
    { [nan |-> FALSE, v |-> v] :
        v \in UNION { [1..n -> 0..MaxScore] : n \in 1..MaxTraceLen } }
    \cup { [nan |-> TRUE, v |-> [i \in 1..n |-> 0]] : n \in 1..MaxTraceLen }

InitPeak ==
    /\ peak \in { [pc |-> "input", trace |-> t, sr |-> sr,
                   min_gap_seconds |-> g, p1 |-> p1, p2 |-> p2,
                   out1 |-> <<>>, out2 |-> <<>>] :
                   t \in Traces, sr \in SampleRates,
                   g \in MinGapChoices, p1 \in Percentiles, p2 \in Percentiles }
    /\ peak.p1 <= peak.p2
    /\ cons = Idle
    /\ lib = Idle
    /\ build = Idle
    /\ run = Idle
    /\ post = Idle
    /\ matcher = Idle
    /\ filt = Idle
    /\ gemini = Idle
    /\ pipeline = Idle

Extract ==
    /\ peak.pc = "input"
    /\ LET d == MinGapSamples(peak.min_gap_seconds, peak.sr)
       IN peak' = [peak EXCEPT
                     !.pc = "done",
                     !.out1 = ExtractCandidates(peak.trace, Percentile(peak.trace, peak.p1), d),
                     !.out2 = ExtractCandidates(peak.trace, Percentile(peak.trace, peak.p2), d)]
    /\ UNCHANGED <<cons, lib, build, run, post, matcher, filt, gemini, pipeline>>

NextPeak == Extract

SpecPeak == InitPeak /\ [][NextPeak]_vars

\* C2 (refractory invariant): in the candidate list of one template, taken in
\* time order, adjacent candidates are at least min_gap_seconds apart:
\* (idx2 - idx1) / sr >= min_gap_seconds.
C2_Refractory ==
    peak.pc = "done" =>
        \A i \in 1..(Len(peak.out1) - 1) :
            peak.out1[i + 1].idx - peak.out1[i].idx >= peak.min_gap_seconds * peak.sr

\* Two candidates survive exactly min_gap_seconds apart, the gap being more
\* than one sample.
C2_Witness ==
    /\ peak.pc = "done"
    /\ peak.min_gap_seconds * peak.sr >= 2
    /\ \E i \in 1..(Len(peak.out1) - 1) :
          peak.out1[i + 1].idx - peak.out1[i].idx = peak.min_gap_seconds * peak.sr

\* C5 (monotonic threshold): for p1 <= p2 on the same trace and gap, the
\* higher percentile returns no more candidates than the lower one.
C5_MonotonicThreshold ==
    peak.pc = "done" => Len(peak.out2) <= Len(peak.out1)

\* A higher percentile that really drops a candidate the lower one returns.
C5_Witness ==
    /\ peak.pc = "done"
    /\ peak.p1 < peak.p2
    /\ Len(peak.out2) >= 1
    /\ Len(peak.out2) < Len(peak.out1)

(***************************************************************************)
(* Consensus Reconciler: MultiTemplateDetector.combine_template_results.   *)
(* all_detections is the dict in insertion order: entry t is the detection *)
(* list of template t, each detection [time, score].                       *)
(***************************************************************************)
MaxTime == 3
MaxCands == 3

\* Three of the seven entries of template_files.
TemplateNames == <<"User Sample 01", "User Sample 02", "Official Sample">>

NumTemplates == Len(TemplateNames)
Tolerances == {0, 1, 2}
ConsScores == {1, 2}

\* The triple loop of lines 176-179: (time, template, score) for every
\* detection, template by template.
RECURSIVE FlattenFrom(_, _)
FlattenFrom(all_detections, t) ==
    IF t > Len(all_detections) THEN <<>>
    ELSE [i \in 1..Len(all_detections[t]) |->
             [time |-> all_detections[t][i].time, template |-> t,
              score |-> all_detections[t][i].score]]
         \o FlattenFrom(all_detections, t + 1)

\* list.sort(key=lambda x: x[0]): stable, equal times keep their order.
RECURSIVE InsertByTime(_, _)
InsertByTime(x, s) ==
    IF s = <<>> THEN <<x>>
    ELSE IF x.time < Head(s).time THEN <<x>> \o s
    ELSE <<Head(s)>> \o InsertByTime(x, Tail(s))

RECURSIVE SortByTime(_)
SortByTime(s) ==
    IF s = <<>> THEN <<>>
    ELSE InsertByTime(s[Len(s)], SortByTime(SubSeq(s, 1, Len(s) - 1)))

\* The inner while loop comparing each detection with the one before it
\* instead of with the first of the group.
RECURSIVE GroupEndChained(_, _, _, _)
GroupEndChained(all_times, i, j, tolerance) ==
    IF j <= Len(all_times) /\ Abs(all_times[j].time - all_times[j - 1].time) <= tolerance
    THEN GroupEndChained(all_times, i, j + 1, tolerance)
    ELSE j

\* The inner while loop: the first j > i whose time is more than `tolerance`
\* after all_times[i] (or len + 1).
RECURSIVE GroupEnd(_, _, _, _)
GroupEnd(all_times, i, j, tolerance) ==
    IF j <= Len(all_times) /\ Abs(all_times[j].time - all_times[i].time) <= tolerance
    THEN GroupEnd(all_times, i, j + 1, tolerance)
    ELSE j

\* The first member of the group as its representative, whatever its score.
FirstOfGroup(group) == group[1]

\* The last member with the highest score as the representative.
LastBestDetection(group) ==
    LET k == CHOOSE a \in 1..Len(group) :
                 /\ \A b \in 1..Len(group) : group[b].score <= group[a].score
                 /\ \A b \in (a + 1)..Len(group) : group[b].score < group[a].score
    IN group[k]

\* max(group, key=lambda x: x[2]): the first member with the highest score.
BestDetection(group) ==
    LET k == CHOOSE a \in 1..Len(group) :
                 /\ \A b \in 1..Len(group) : group[b].score <= group[a].score
                 /\ \A b \in 1..(a - 1) : group[b].score < group[a].score
    IN group[k]

\* Line 204: if len(group) >= 2
GroupAgrees(group) == Len(group) >= 2

ConsensusOf(group) ==
    [time |-> BestDetection(group).time,
     score |-> BestDetection(group).score,
     strength |-> Len(group),
     templates |-> [k \in 1..Len(group) |-> group[k].template]]

\* The outer while loop of lines 188-225, from position i.
RECURSIVE GroupLoop(_, _, _)
GroupLoop(all_times, i, tolerance) ==
    IF i > Len(all_times) THEN <<>>
    ELSE LET j == GroupEnd(all_times, i, i + 1, tolerance)
             group == SubSeq(all_times, i, j - 1)
         IN (IF GroupAgrees(group) THEN <<ConsensusOf(group)>> ELSE <<>>)
            \o GroupLoop(all_times, IF j > i + 1 THEN j ELSE i + 1, tolerance)

\* consensus_detections.sort(key=(strength, score), reverse=True): stable.
RECURSIVE InsertByStrength(_, _)
InsertByStrength(x, s) ==
    IF s = <<>> THEN <<x>>
    ELSE IF \/ x.strength > Head(s).strength
            \/ (x.strength = Head(s).strength /\ x.score > Head(s).score)
         THEN <<x>> \o s
         ELSE <<Head(s)>> \o InsertByStrength(x, Tail(s))

RECURSIVE SortByStrength(_)
SortByStrength(s) ==
    IF s = <<>> THEN <<>>
    ELSE InsertByStrength(s[Len(s)], SortByStrength(SubSeq(s, 1, Len(s) - 1)))

combine_template_results(all_detections, tolerance) ==
    SortByStrength(GroupLoop(SortByTime(FlattenFrom(all_detections, 1)), 1, tolerance))

(***************************************************************************)
(* Specification SpecCons: a map of detection lists and a tolerance.  Each *)
(* list is one the Peak Extractor can return: in time order, adjacent      *)
(* detections at least min_gap apart.                                      *)
(***************************************************************************)
Slots == (1..NumTemplates) \X (0..MaxTime)

\* The detection list of template t in the partial map f (slot -> score).
ListOf(f, t) ==
    LET times == SetToSortedSeq({ x \in 0..MaxTime : <<t, x>> \in DOMAIN f })
    IN [i \in 1..Len(times) |-> [time |-> times[i], score |-> f[<<t, times[i]>>]]]

DetectionMaps(min_gap) ==
    { [t \in 1..NumTemplates |-> ListOf(f, t)] :
        f \in UNION { [D -> ConsScores] :
                D \in { E \in SUBSET Slots :
                          /\ Cardinality(E) <= MaxCands
                          /\ \A a \in E : \A b \in E :
                               (a[1] = b[1] /\ a[2] < b[2]) => b[2] - a[2] >= min_gap } } }

InitCons ==
    /\ \E g \in MinGapChoices :
         cons \in { [pc |-> "input", all_detections |-> m, tolerance |-> tol,
                     min_gap |-> g, consensus_detections |-> <<>>] :
                     m \in DetectionMaps(g), tol \in Tolerances }
    /\ peak = Idle
    /\ lib = Idle
    /\ build = Idle
    /\ run = Idle
    /\ post = Idle
    /\ matcher = Idle
    /\ filt = Idle
    /\ gemini = Idle
    /\ pipeline = Idle

Combine ==
    /\ cons.pc = "input"
    /\ cons' = [cons EXCEPT
                  !.pc = "done",
                  !.consensus_detections =
                      combine_template_results(cons.all_detections, cons.tolerance)]
    /\ UNCHANGED <<peak, lib, build, run, post, matcher, filt, gemini, pipeline>>

NextCons == Combine

SpecCons == InitCons /\ [][NextCons]_vars

\* C1 (consensus cardinality): every detection the consensus step returns is
\* supported by at least two distinct templates.
C1_ConsensusCardinality ==
    cons.pc = "done" =>
        \A d \in 1..Len(cons.consensus_detections) :
            Cardinality({ cons.consensus_detections[d].templates[k] :
                            k \in 1..Len(cons.consensus_detections[d].templates) }) >= 2

(***************************************************************************)
(* Template Library: MultiTemplateDetector.load_chime_templates.           *)
(* A file is [exists, audio]: librosa.load raises for a file that does not *)
(* exist, and returns the samples otherwise.  A normalised buffer is       *)
(* [nan, v, den]: the samples v[i] / den; dividing an all-zero buffer by   *)
(* its peak 0 gives NaN in every sample (numpy warns, it does not raise).  *)
(***************************************************************************)
MaxTemplateLen == 2

Samples == {-1, 0, 2}

\* audio / np.max(np.abs(audio))
PeakNormalize(audio) ==
    [nan |-> MaxAbs(audio) = 0,
     v |-> audio,
     den |-> IF MaxAbs(audio) = 0 THEN 1 ELSE MaxAbs(audio)]

\* Whether the try block of lines 42-55 runs to its end: librosa.load found
\* the file, and np.max did not raise on a zero-size array.
LoadsOk(file) == file.exists /\ file.audio # <<>>

LoadOneNameFirst(st, file, name) ==
    IF ~file.exists THEN st
    ELSE IF file.audio = <<>>
    THEN [st EXCEPT !.template_names = Append(@, name)]
    ELSE [st EXCEPT !.chime_templates = Append(@, PeakNormalize(file.audio)),
                    !.template_names = Append(@, name),
                    !.templates_loaded = @ + 1]

\* One iteration of the loop of lines 41-58.
LoadOne(st, file, name) ==
    IF ~LoadsOk(file) THEN st
    ELSE [st EXCEPT !.chime_templates = Append(@, PeakNormalize(file.audio)),
                    !.template_names = Append(@, name),
                    !.templates_loaded = @ + 1]

RECURSIVE LoadLoop(_, _, _)
LoadLoop(st, files, i) ==
    IF i > Len(files) THEN st
    ELSE LoadLoop(LoadOne(st, files[i], TemplateNames[i]), files, i + 1)

\* MultiTemplateDetector.__init__ (the two lists) and templates_loaded = 0.
NewDetector == [chime_templates |-> <<>>, template_names |-> <<>>, templates_loaded |-> 0]

\* load_chime_templates: the detector afterwards, and the value returned.
load_chime_templates(files) ==
    LET st == LoadLoop(NewDetector, files, 1)
    IN [detector |-> st, ret |-> st.templates_loaded > 0]

AudioBuffers(maxlen) == UNION { [1..n -> Samples] : n \in 0..maxlen }

FileChoices ==
    { [exists |-> FALSE, audio |-> <<>>] }
    \cup { [exists |-> TRUE, audio |-> a] : a \in AudioBuffers(MaxTemplateLen) }

(***************************************************************************)
(* Template construction: extract_expanded_patterns.  For every labelled   *)
(* transition a padded window is loaded and the inner window of            *)
(* segment_length samples with the highest RMS energy is kept; the kept    *)
(* segments are averaged into the refined reference pattern.               *)
(***************************************************************************)
MaxWindowLen == 3

SegmentLengths == {1, 2}

SumSquares(seg) == SeqSum([i \in 1..Len(seg) |-> seg[i] * seg[i]])

\* range(0, len(expanded_audio) - segment_length + 1, step), 1-based.
SegmentStarts(expanded_audio, segment_length, step) ==
    { k \in 1..(Len(expanded_audio) - segment_length + 1) : (k - 1) % step = 0 }

\* max(rms_scores, key=lambda x: x[1]): the first start with the highest RMS
\* (segments have one length, so the sum of squares orders them as RMS does).
BestRmsStart(expanded_audio, segment_length, step) ==
    LET S == SegmentStarts(expanded_audio, segment_length, step)
        ss(k) == SumSquares(SubSeq(expanded_audio, k, k + segment_length - 1))
    IN CHOOSE k \in S : /\ \A j \in S : ss(j) <= ss(k)
                        /\ \A j \in S : j < k => ss(j) < ss(k)

\* Whether the try block of lines 49-132 runs to its end: the window loaded,
\* and max() did not raise on an empty rms_scores.
WindowOk(w, segment_length, step) ==
    w.exists /\ SegmentStarts(w.audio, segment_length, step) # {}

RECURSIVE BestSegments(_, _, _, _)
BestSegments(windows, i, segment_length, step) ==
    IF i > Len(windows) THEN <<>>
    ELSE (IF WindowOk(windows[i], segment_length, step)
          THEN LET k == BestRmsStart(windows[i].audio, segment_length, step)
               IN <<[segment |-> SubSeq(windows[i].audio, k, k + segment_length - 1),
                     offset |-> k - 1, transition |-> i]>>
          ELSE <<>>)
         \o BestSegments(windows, i + 1, segment_length, step)

RECURSIVE MinLen(_)
MinLen(segs) ==
    IF Len(segs) = 1 THEN Len(segs[1].segment)
    ELSE Min2(Len(Head(segs).segment), MinLen(Tail(segs)))

\* The average with every contributor trimmed at its start (seg[-min_length:]).
RefinedPatternTail(segs) ==
    IF segs = <<>> THEN [built |-> FALSE, v |-> <<>>, den |-> 1]
    ELSE [built |-> TRUE,
          v |-> [i \in 1..MinLen(segs) |->
                   SeqSum([k \in 1..Len(segs) |->
                             segs[k].segment[Len(segs[k].segment) - MinLen(segs) + i]])],
          den |-> Len(segs)]

\* np.mean(trimmed_segments, axis=0): sample i is the sum of the
\* contributors' samples i over their number.
RefinedPattern(segs) ==
    IF segs = <<>> THEN [built |-> FALSE, v |-> <<>>, den |-> 1]
    ELSE [built |-> TRUE,
          v |-> [i \in 1..MinLen(segs) |->
                   SeqSum([k \in 1..Len(segs) |-> segs[k].segment[i]])],
          den |-> Len(segs)]

WindowChoices ==
    { [exists |-> FALSE, audio |-> <<>>] }
    \cup { [exists |-> TRUE, audio |-> a] : a \in AudioBuffers(MaxWindowLen) \ {<<>>} }

(***************************************************************************)
(* Specification SpecLib: either a detector loading its template files,    *)
(* or a run of extract_expanded_patterns over two labelled transitions.    *)
(***************************************************************************)
InitLib ==
    /\ \/ /\ lib \in { [pc |-> "new", files |-> f, detector |-> NewDetector, ret |-> FALSE] :
                         f \in [1..NumTemplates -> FileChoices] }
          /\ build = Idle
       \/ /\ lib = Idle
          /\ build \in { [pc |-> "new", windows |-> w, segment_length |-> L, step |-> 1,
                          best_segments |-> <<>>,
                          refined_pattern |-> [built |-> FALSE, v |-> <<>>, den |-> 1]] :
                          w \in [1..2 -> WindowChoices], L \in SegmentLengths }
    /\ peak = Idle
    /\ cons = Idle
    /\ run = Idle
    /\ post = Idle
    /\ matcher = Idle
    /\ filt = Idle
    /\ gemini = Idle
    /\ pipeline = Idle

LoadChimeTemplates ==
    /\ lib.pc = "new"
    /\ lib' = [lib EXCEPT !.pc = "done",
                          !.detector = load_chime_templates(lib.files).detector,
                          !.ret = load_chime_templates(lib.files).ret]
    /\ UNCHANGED <<peak, cons, build, run, post, matcher, filt, gemini, pipeline>>

ExtractExpandedPatterns ==
    /\ build.pc = "new"
    /\ LET segs == BestSegments(build.windows, 1, build.segment_length, build.step)
       IN build' = [build EXCEPT !.pc = "done",
                                 !.best_segments = segs,
                                 !.refined_pattern = RefinedPattern(segs)]
    /\ UNCHANGED <<peak, cons, lib, run, post, matcher, filt, gemini, pipeline>>

NextLib == LoadChimeTemplates \/ ExtractExpandedPatterns

SpecLib == InitLib /\ [][NextLib]_vars

\* The indices of the files that load, in input order.
LoadedIndices(files) ==
    SetToSortedSeq({ i \in 1..Len(files) : files[i].exists /\ Len(files[i].audio) > 0 })

\* C7 (per-template failure isolation): after the build the library holds
\* exactly the templates that loaded, in input order, names aligned with
\* templates index by index, and the build returns False iff the library is
\* empty.
C7_FailureIsolation ==
    lib.pc = "done" =>
        LET ok == LoadedIndices(lib.files)
            d == lib.detector
        IN /\ Len(d.chime_templates) = Len(ok)
           /\ Len(d.template_names) = Len(ok)
           /\ \A k \in 1..Len(ok) :
                /\ d.template_names[k] = TemplateNames[ok[k]]
                /\ d.chime_templates[k].v = lib.files[ok[k]].audio
           /\ (lib.ret = FALSE) <=> (Len(d.chime_templates) = 0)

\* A file that fails between two files that load.
C7_Witness ==
    /\ lib.pc = "done"
    /\ LoadsOk(lib.files[1])
    /\ ~LoadsOk(lib.files[2])
    /\ LoadsOk(lib.files[3])
    /\ lib.files[1].audio # lib.files[3].audio
    /\ lib.ret = TRUE

\* C9 (template quality): an exemplar whose quality metric is flat (an
\* all-silence window) is rejected: no all-zero segment is kept or averaged
\* into the reference pattern, and no all-zero or not-a-number template
\* enters the library.
C9_TemplateQuality ==
    /\ build.pc = "done" =>
         \A k \in 1..Len(build.best_segments) :
             MaxAbs(build.best_segments[k].segment) # 0
    /\ lib.pc = "done" =>
         \A k \in 1..Len(lib.detector.chime_templates) :
             /\ ~lib.detector.chime_templates[k].nan
             /\ MaxAbs(lib.detector.chime_templates[k].v) # 0

(***************************************************************************)
(* Correlation Matcher: scipy.signal.correlate(in1, in2, mode='valid')     *)
(* divided by len(template), on peak-normalised buffers.                   *)
(***************************************************************************)

\* Sum over j of a[off + j] * b[j], b laid over a at 0-based offset off.
Overlap(a, b, off) == SeqSum([j \in 1..Len(b) |-> a[off + j] * b[j]])

\* Valid-mode cross-correlation.  When in2 is the longer input scipy swaps
\* the two (no error is raised): the result has len(in2) - len(in1) + 1
\* entries, entry k being in1 laid over in2 at offset len(in2) - len(in1) - k.
ValidCorrelate(in1, in2) ==
    IF Len(in1) >= Len(in2)
    THEN [k \in 1..(Len(in1) - Len(in2) + 1) |-> Overlap(in1, in2, k - 1)]
    ELSE [k \in 1..(Len(in2) - Len(in1) + 1) |->
             Overlap(in2, in1, Len(in2) - Len(in1) - (k - 1))]

\* correlate(audio_normalized, template, mode='valid') / len(template): the
\* similarity trace, entry i the value v[i] / den.
SimilarityTrace(audio_normalized, template) ==
    [nan |-> audio_normalized.nan \/ template.nan,
     v |-> ValidCorrelate(audio_normalized.v, template.v),
     den |-> audio_normalized.den * template.den * Len(template.v)]

(***************************************************************************)
(* Signal Conditioner, frequency emphasis.  The two Butterworth sections   *)
(* are linear, causal and length-preserving with zero initial state; they  *)
(* are represented by the first difference y[n] = x[n] - x[n-1], which has *)
(* those properties and integer output.                                    *)
(***************************************************************************)
frequency_band_filter(audio_data) ==
    [n \in 1..Len(audio_data) |->
        IF n = 1 THEN audio_data[1] ELSE audio_data[n] - audio_data[n - 1]]

(***************************************************************************)
(* MultiTemplateDetector.detect_with_multiple_templates and its caller     *)
(* test_multi_template_system.  Times are kept in samples (time_sec * sr)  *)
(* and scores as numerators over the run's common denominator.             *)
(***************************************************************************)
MaxSignalLen == 4

RunExemplars ==
    { [exists |-> FALSE, audio |-> <<>>],
      [exists |-> TRUE, audio |-> <<2>>],
      [exists |-> TRUE, audio |-> <<0, 0>>],
      [exists |-> TRUE, audio |-> <<-1, 2, 0>>] }

RunConfigs ==
    { [sr |-> 1, min_gap_seconds |-> 1, tolerance |-> 0, percentile |-> 997],
      [sr |-> 1, min_gap_seconds |-> 2, tolerance |-> 1, percentile |-> 997],
      [sr |-> 2, min_gap_seconds |-> 1, tolerance |-> 1, percentile |-> 500] }

\* The product of den * len over the templates other than t: what brings
\* template t's scores to the common denominator.
RECURSIVE ScaleOthers(_, _, _)
ScaleOthers(templates, t, u) ==
    IF u > Len(templates) THEN 1
    ELSE (IF u = t THEN 1 ELSE templates[u].den * Len(templates[u].v))
         * ScaleOthers(templates, t, u + 1)

\* Lines 129-163 for template t: its trace and its detection list.
TemplateEntry(detector, audio_normalized, cfg, t) ==
    LET template == detector.chime_templates[t]
        correlation == SimilarityTrace(audio_normalized, template)
        threshold == Percentile(correlation, cfg.percentile)
        min_gap_samples == MinGapSamples(cfg.min_gap_seconds, cfg.sr)
        peaks == ExtractCandidates(correlation, threshold, min_gap_samples)
    IN [name |-> detector.template_names[t],
        correlation |-> correlation,
        detections |-> [i \in 1..Len(peaks) |->
                          [time |-> peaks[i].idx,
                           score |-> peaks[i].score
                                       * ScaleOthers(detector.chime_templates, t, 1)]]]

\* detect_with_multiple_templates: `return []` when the recording cannot be
\* loaded, `return all_detections, correlation_stats` otherwise; both dicts
\* have one entry per template of the library, in library order.
detect_with_multiple_templates(detector, recording, cfg) ==
    IF ~recording.exists
    THEN [shape |-> "list", entries |-> <<>>]
    ELSE LET audio_normalized == PeakNormalize(frequency_band_filter(recording.audio))
         IN [shape |-> "tuple",
             entries |-> [t \in 1..Len(detector.chime_templates) |->
                            TemplateEntry(detector, audio_normalized, cfg, t)]]

\* all_detections as combine_template_results reads it.
AllDetections(ret) == [t \in 1..Len(ret.entries) |-> ret.entries[t].detections]

Recordings ==
    { [exists |-> FALSE, audio |-> <<>>] }
    \cup { [exists |-> TRUE, audio |-> a] : a \in AudioBuffers(MaxSignalLen) \ {<<>>} }

NoReturn == [shape |-> "none", entries |-> <<>>]

InitRun ==
    /\ run \in { [pc |-> "start", files |-> f, recording |-> r, cfg |-> c,
                  detector |-> NewDetector, ret |-> NoReturn,
                  consensus_detections |-> <<>>, outcome |-> "running"] :
                  f \in [1..NumTemplates -> RunExemplars], r \in Recordings,
                  c \in RunConfigs }
    /\ peak = Idle
    /\ cons = Idle
    /\ lib = Idle
    /\ build = Idle
    /\ post = Idle
    /\ matcher = Idle
    /\ filt = Idle
    /\ gemini = Idle
    /\ pipeline = Idle

\* Lines 286-291: load the templates; "Failed to load templates!" and
\* return when none loaded.
RunLoadTemplates ==
    /\ run.pc = "start"
    /\ LET r == load_chime_templates(run.files)
       IN run' = [run EXCEPT !.detector = r.detector,
                             !.pc = IF r.ret THEN "loaded" ELSE "done",
                             !.outcome = IF r.ret THEN "running" ELSE "no_templates"]
    /\ UNCHANGED <<peak, cons, lib, build, post, matcher, filt, gemini, pipeline>>

\* Line 304, the call.
RunDetect ==
    /\ run.pc = "loaded"
    /\ run' = [run EXCEPT !.pc = "returned",
                          !.ret = detect_with_multiple_templates(run.detector,
                                                                 run.recording, run.cfg)]
    /\ UNCHANGED <<peak, cons, lib, build, post, matcher, filt, gemini, pipeline>>

\* Lines 304-332: unpacking the returned value into two names raises
\* ValueError, which nothing catches, unless it is a pair; then the
\* consensus step and the validation run and the result is returned.
RunFinish ==
    /\ run.pc = "returned"
    /\ \/ /\ run.ret.shape # "tuple"
          /\ run' = [run EXCEPT !.pc = "done", !.outcome = "unhandled_exception"]
       \/ /\ run.ret.shape = "tuple"
          /\ run' = [run EXCEPT
                       !.pc = "done",
                       !.outcome = "result",
                       !.consensus_detections =
                           combine_template_results(AllDetections(run.ret),
                                                    run.cfg.tolerance * run.cfg.sr)]
    /\ UNCHANGED <<peak, cons, lib, build, post, matcher, filt, gemini, pipeline>>

NextRun == RunLoadTemplates \/ RunDetect \/ RunFinish

SpecRun == InitRun /\ [][NextRun]_vars

\* C6 (caller-visible outcome): a run ends with a result or with the one
\* aggregate error of an empty library; a recording that cannot be loaded is
\* reported in the shape of the success result and never ends the caller
\* with an unhandled exception.
C6_CallerOutcome ==
    /\ run.pc = "returned" => run.ret.shape = "tuple"
    /\ run.pc = "done" => run.outcome \in {"result", "no_templates"}

\* C8 (insufficient data): a template longer than the signal is skipped: it
\* has no trace in correlation_stats and contributes no candidate.
C8_ShortSignalSkipped ==
    run.pc = "returned" /\ run.ret.shape = "tuple" =>
        \A t \in 1..Len(run.detector.chime_templates) :
            Len(run.detector.chime_templates[t].v) > Len(run.recording.audio) =>
                \A e \in 1..Len(run.ret.entries) :
                    run.ret.entries[e].name = run.detector.template_names[t] =>
                        /\ Len(run.ret.entries[e].correlation.v) = 0
                        /\ run.ret.entries[e].detections = <<>>

\* C4 (trace length): every trace has len(signal) - len(template) + 1
\* entries.
C4_TraceLength ==
    run.pc = "returned" /\ run.ret.shape = "tuple" =>
        \A t \in 1..Len(run.ret.entries) :
            Len(run.ret.entries[t].correlation.v)
              = Len(run.recording.audio) - Len(run.detector.chime_templates[t].v) + 1

(***************************************************************************)
(* Structural Post-Filter: analyze_chronological_transitions.  Lines 29-49 *)
(* detect all_matches with one reference pattern; lines 59-154 select the  *)
(* events.  A match is [time, score], time in samples (time_sec * sr);     *)
(* expected_count, min_spacing and ideal_gap stand for the literals        *)
(* 9, 120 and 200 of the code, max_gap for the configured upper bound,     *)
(* which the code does not read.                                           *)
(***************************************************************************)
MaxMatches == 5

PostConfigs ==
    { [expected_count |-> 3, min_spacing |-> 2, ideal_gap |-> 3, max_gap |-> 6,
       min_gap_seconds |-> 1, percentile |-> 997],
      [expected_count |-> 2, min_spacing |-> 3, ideal_gap |-> 4, max_gap |-> 8,
       min_gap_seconds |-> 1, percentile |-> 500] }

PostGaps == {1, 2, 4}

PostReferences == { <<2>>, <<-1, 2>> }

\* Lines 30-49: normalise, correlate, threshold, find_peaks, and the matches
\* in time order.
DetectMatches(reference_pattern, audio_data, cfg, sr) ==
    LET correlation == SimilarityTrace(PeakNormalize(audio_data),
                                       PeakNormalize(reference_pattern))
        peaks == ExtractCandidates(correlation,
                                   Percentile(correlation, cfg.percentile),
                                   MinGapSamples(cfg.min_gap_seconds, sr))
    IN [i \in 1..Len(peaks) |-> [time |-> peaks[i].idx, score |-> peaks[i].score]]

\* Method 1 made of interpolated times between the first and the last match
\* instead of picked matches.
EvenlySpacedInterpolated(all_matches, N) ==
    LET first == all_matches[1]
        last == all_matches[Len(all_matches)]
    IN [i \in 1..N |->
          [time |-> first.time + ((i - 1) * (last.time - first.time)) \div Max2(N - 1, 1),
           score |-> first.score]]

\* Method 1 with a whole-number step (len(all_matches) // N).
EvenlySpacedWholeStep(all_matches, N) ==
    [i \in 1..N |-> all_matches[((i - 1) * (Len(all_matches) \div N)) + 1]]

\* Method 1, lines 64-66: selected_indices = [int(i * step) for i in range(N)]
\* with step = len(all_matches) / N.
EvenlySpaced(all_matches, N) ==
    [i \in 1..N |-> all_matches[(((i - 1) * Len(all_matches)) \div N) + 1]]

\* Method 2, lines 75-83: accept a match when it is at least min_spacing
\* after the last accepted one, until N are accepted.
RECURSIVE RealisticLoop(_, _, _, _, _, _)
RealisticLoop(all_matches, i, last_time, acc, N, spacing) ==
    IF i > Len(all_matches) \/ Len(acc) >= N THEN acc
    ELSE IF all_matches[i].time - last_time >= spacing
         THEN RealisticLoop(all_matches, i + 1, all_matches[i].time,
                            Append(acc, all_matches[i]), N, spacing)
         ELSE RealisticLoop(all_matches, i + 1, last_time, acc, N, spacing)

\* Method 2 without the break of lines 82-83.
RealisticSpacingUnbounded(all_matches, N, spacing) ==
    RealisticLoop(all_matches, 1, -spacing, <<>>, Len(all_matches), spacing)

RealisticSpacing(all_matches, N, spacing) ==
    RealisticLoop(all_matches, 1, -spacing, <<>>, N, spacing)

\* sorted(all_matches, key=lambda x: x[1], reverse=True): stable.
RECURSIVE InsertByScoreDesc(_, _)
InsertByScoreDesc(x, s) ==
    IF s = <<>> THEN <<x>>
    ELSE IF x.score > Head(s).score THEN <<x>> \o s
    ELSE <<Head(s)>> \o InsertByScoreDesc(x, Tail(s))

RECURSIVE SortByScoreDesc(_)
SortByScoreDesc(s) ==
    IF s = <<>> THEN <<>>
    ELSE InsertByScoreDesc(s[Len(s)], SortByScoreDesc(SubSeq(s, 1, Len(s) - 1)))

\* Method 3 taking the first N matches in time order.
FirstMatches(all_matches, N) ==
    SubSeq(all_matches, 1, Min2(N, Len(all_matches)))

\* Method 3, lines 92-93: the N best scores, put back in time order.
TopScores(all_matches, N) ==
    SortByTime(SubSeq(SortByScoreDesc(all_matches), 1, Min2(N, Len(all_matches))))

(***************************************************************************)
(* The fitness of lines 116-124, compared exactly.  With k gaps g of sum S *)
(* and sum of squares Q (in samples), V = k*Q - S*S and                    *)
(* a = |S - ideal*k*sr| + k*sr:                                            *)
(*   1 / total_score = a * (sqrt(V) + k*sr) / (k*sr)^2.                    *)
(***************************************************************************)
RECURSIVE IsqrtSearch(_, _, _)
IsqrtSearch(lo, hi, n) ==
    IF lo >= hi THEN lo
    ELSE LET mid == (lo + hi + 1) \div 2
         IN IF mid * mid <= n THEN IsqrtSearch(mid, hi, n)
            ELSE IsqrtSearch(lo, mid - 1, n)

\* floor(sqrt(n))
Isqrt(n) == IsqrtSearch(0, Min2(n, 46340), n)

\* e < t * sqrt(P), for t >= 0 and P >= 0.
LtMulSqrt(e, t, P) ==
    IF e < 0 THEN TRUE
    ELSE IF t = 0 \/ P = 0 THEN FALSE
    ELSE LET s == Isqrt(P)
             r == e - t * s
         IN IF r < 0 THEN TRUE
            ELSE IF r >= t THEN FALSE
            ELSE 2 * t * s * r + r * r < t * t * (P - s * s)

\* t * sqrt(P) < f, for t >= 0 and P >= 0.
MulSqrtLt(t, P, f) ==
    IF f <= 0 THEN FALSE
    ELSE IF t = 0 \/ P = 0 THEN TRUE
    ELSE LET s == Isqrt(P)
             r == f - t * s
         IN IF r <= 0 THEN FALSE
            ELSE IF r >= t THEN TRUE
            ELSE t * t * (P - s * s) < 2 * t * s * r + r * r

\* sqrt(P) + m < sqrt(Q) + n
SqrtSumLess(P, m, Q, n) ==
    LET c == n - m
    IN IF c >= 0
       THEN IF P < c * c THEN TRUE ELSE LtMulSqrt(P + c * c - Q, 2 * c, P)
       ELSE IF Q <= c * c THEN FALSE ELSE MulSqrtLt(2 * (-c), Q, Q + c * c - P)

Gaps(matches) == [i \in 1..(Len(matches) - 1) |-> matches[i + 1].time - matches[i].time]

GapStats(matches, ideal_gap, sr) ==
    LET g == Gaps(matches)
        k == Len(g)
        S == SeqSum(g)
        Q == SeqSum([i \in 1..k |-> g[i] * g[i]])
    IN [k |-> k, a |-> Abs(S - ideal_gap * k * sr) + k * sr, V |-> k * Q - S * S]

\* total_score of x > total_score of y (both with at least two events).
ScoresHigher(x, y, ideal_gap, sr) ==
    LET sx == GapStats(x, ideal_gap, sr)
        sy == GapStats(y, ideal_gap, sr)
        alpha == sx.a * sy.k * sy.k
        beta == sy.a * sx.k * sx.k
    IN SqrtSumLess(alpha * alpha * sx.V, alpha * sx.k * sr,
                   beta * beta * sy.V, beta * sy.k * sr)

NoMethod == [name |-> "none", matches |-> <<>>]

\* The loop of lines 111-130 keeping the first method that is scored,
\* without comparing the scores.
RECURSIVE FirstScoredMethod(_, _, _, _, _)
FirstScoredMethod(methods, i, best, ideal_gap, sr) ==
    IF i > Len(methods) THEN best
    ELSE IF Len(methods[i].matches) >= 2 /\ best.name = "none"
         THEN FirstScoredMethod(methods, i + 1, methods[i], ideal_gap, sr)
         ELSE FirstScoredMethod(methods, i + 1, best, ideal_gap, sr)

\* Lines 111-130: the loop over the three methods, best_score starting at -1.
RECURSIVE BestMethodLoop(_, _, _, _, _)
BestMethodLoop(methods, i, best, ideal_gap, sr) ==
    IF i > Len(methods) THEN best
    ELSE IF Len(methods[i].matches) >= 2
            /\ (best.name = "none"
                \/ ScoresHigher(methods[i].matches, best.matches, ideal_gap, sr))
         THEN BestMethodLoop(methods, i + 1, methods[i], ideal_gap, sr)
         ELSE BestMethodLoop(methods, i + 1, best, ideal_gap, sr)

Methods(all_matches, cfg, sr) ==
    << [name |-> "Evenly Spaced",
        matches |-> EvenlySpaced(all_matches, cfg.expected_count)],
       [name |-> "Realistic Spacing",
        matches |-> RealisticSpacing(all_matches, cfg.expected_count, cfg.min_spacing * sr)],
       [name |-> "Top Scores",
        matches |-> TopScores(all_matches, cfg.expected_count)] >>

\* SelectSequence with the return of lines 152-154 left unmarked.
SelectSequenceUnmarked(all_matches, cfg, sr) ==
    [kind |-> "sequence",
     events |-> IF Len(all_matches) >= cfg.expected_count
                THEN EvenlySpaced(all_matches, cfg.expected_count)
                ELSE all_matches,
     incomplete |-> FALSE, method |-> "none"]

\* Lines 62-154: what analyze_chronological_transitions returns.  kind is
\* "sequence" for a returned list and "none" when the function falls off
\* its end; incomplete marks the return of lines 152-154 ("Only found N
\* transitions").
SelectSequence(all_matches, cfg, sr) ==
    IF Len(all_matches) >= cfg.expected_count
    THEN LET best == BestMethodLoop(Methods(all_matches, cfg, sr), 1, NoMethod,
                                    cfg.ideal_gap, sr)
         IN IF best.name # "none"
            THEN [kind |-> "sequence", events |-> best.matches,
                  incomplete |-> FALSE, method |-> best.name]
            ELSE [kind |-> "none", events |-> <<>>,
                  incomplete |-> FALSE, method |-> "none"]
    ELSE [kind |-> "sequence", events |-> all_matches,
          incomplete |-> TRUE, method |-> "none"]

(***************************************************************************)
(* Specification SpecPost: either a recording and a reference pattern      *)
(* (the whole function), or a list all_matches as lines 29-49 leave it:    *)
(* in time order, strictly increasing (the selection alone).               *)
(***************************************************************************)
RECURSIVE TimesFrom(_, _)
TimesFrom(t, gaps) ==
    IF gaps = <<>> THEN <<t>> ELSE <<t>> \o TimesFrom(t + Head(gaps), Tail(gaps))

MatchLists ==
    { <<>> } \cup
    UNION { { [i \in 1..n |-> [time |-> TimesFrom(1, g)[i], score |-> sc[i]]] :
                g \in [1..(n - 1) -> PostGaps], sc \in [1..n -> ConsScores] } :
            n \in 1..MaxMatches }

NoResult == [kind |-> "pending", events |-> <<>>, incomplete |-> FALSE, method |-> "none"]

InitPost ==
    /\ \/ post \in { [pc |-> "loaded", audio |-> a, reference |-> r, cfg |-> c, sr |-> sr,
                      all_matches |-> <<>>, result |-> NoResult] :
                      a \in AudioBuffers(MaxSignalLen) \ {<<>>}, r \in PostReferences,
                      c \in PostConfigs, sr \in SampleRates }
       \/ post \in { [pc |-> "matched", audio |-> <<>>, reference |-> <<>>, cfg |-> c,
                      sr |-> 1, all_matches |-> m, result |-> NoResult] :
                      m \in MatchLists, c \in PostConfigs }
    /\ peak = Idle
    /\ cons = Idle
    /\ lib = Idle
    /\ build = Idle
    /\ run = Idle
    /\ matcher = Idle
    /\ filt = Idle
    /\ gemini = Idle
    /\ pipeline = Idle

AnalyzeDetect ==
    /\ post.pc = "loaded"
    /\ post' = [post EXCEPT !.pc = "matched",
                            !.all_matches = DetectMatches(post.reference, post.audio,
                                                          post.cfg, post.sr)]
    /\ UNCHANGED <<peak, cons, lib, build, run, matcher, filt, gemini, pipeline>>

AnalyzeSelect ==
    /\ post.pc = "matched"
    /\ post' = [post EXCEPT !.pc = "done",
                            !.result = SelectSequence(post.all_matches, post.cfg, post.sr)]
    /\ UNCHANGED <<peak, cons, lib, build, run, matcher, filt, gemini, pipeline>>

NextPost == AnalyzeDetect \/ AnalyzeSelect

SpecPost == InitPost /\ [][NextPost]_vars

\* C3 (ordering invariant): every returned event sequence is strictly
\* increasing in time and each gap between adjacent events lies within
\* [min_gap_seconds, max_gap_seconds], whichever strategy was chosen.
C3_OrderingInvariant ==
    post.pc = "done" /\ post.result.kind = "sequence" /\ ~post.result.incomplete =>
        \A i \in 1..(Len(post.result.events) - 1) :
            LET gap == post.result.events[i + 1].time - post.result.events[i].time
            IN /\ gap > 0
               /\ gap >= post.cfg.min_spacing * post.sr
               /\ gap <= post.cfg.max_gap * post.sr

(***************************************************************************)
(* Specification SpecScripts: the two entry points of the repository, the  *)
(* multi-template run and the chronological analysis, each on its inputs.  *)
(***************************************************************************)
InitScripts == InitRun \/ InitPost

NextScripts == NextRun \/ NextPost

SpecScripts == InitScripts /\ [][NextScripts]_vars

\* An all-silence recording: at least one sample, every sample zero.
Silent(audio) == audio # <<>> /\ \A i \in 1..Len(audio) : audio[i] = 0

IsLocalMaximum(x, m) ==
    /\ m \in 2..(Len(x) - 1)
    /\ \E l \in 2..m : \E r \in m..(Len(x) - 1) :
          /\ \A i \in l..r : x[i] = x[l]
          /\ x[l - 1] < x[l]
          /\ x[r + 1] < x[r]
          /\ m = (l + r) \div 2

\* No local maximum of the trace reaches the threshold.
NothingClears(trace, thr) ==
    \/ trace.nan
    \/ thr.nan
    \/ \A m \in 1..Len(trace.v) :
          IsLocalMaximum(trace.v, m) => 1000 * trace.v[m] < thr.m

\* C11 (empty extraction): a template none of whose local maxima clears the
\* threshold gets the empty detection list, the call still returns its pair
\* with an entry for every template; a run whose lists are all empty ends
\* with a result, the empty consensus list.
C11_EmptyExtraction ==
    /\ (run.pc \in {"returned", "done"} /\ run.ret.shape = "tuple") =>
          /\ Len(run.ret.entries) = Len(run.detector.chime_templates)
          /\ \A t \in 1..Len(run.ret.entries) :
                NothingClears(run.ret.entries[t].correlation,
                              Percentile(run.ret.entries[t].correlation,
                                         run.cfg.percentile))
                  => run.ret.entries[t].detections = <<>>
    /\ (run.pc = "done" /\ run.ret.shape = "tuple") =>
          /\ run.outcome = "result"
          /\ (\A t \in 1..Len(run.ret.entries) : run.ret.entries[t].detections = <<>>)
                => run.consensus_detections = <<>>

\* A finished run on a recording that is not silent, with two sound
\* templates at least, where a trace has a local maximum below the threshold
\* and every detection list is empty.
C11_Witness ==
    /\ run.pc = "done"
    /\ run.outcome = "result"
    /\ Len(run.ret.entries) >= 2
    /\ \A t \in 1..Len(run.ret.entries) :
          /\ ~run.ret.entries[t].correlation.nan
          /\ run.ret.entries[t].detections = <<>>
    /\ \E t \in 1..Len(run.ret.entries) :
          \E m \in 1..Len(run.ret.entries[t].correlation.v) :
              IsLocalMaximum(run.ret.entries[t].correlation.v, m)
    /\ run.consensus_detections = <<>>

C13_BestFitness ==
    (post.pc = "done" /\ Len(post.all_matches) >= post.cfg.expected_count) =>
        LET ms == Methods(post.all_matches, post.cfg, post.sr)
        IN /\ post.result.kind = "sequence"
           /\ ~post.result.incomplete
           /\ \E w \in 1..Len(ms) :
                 /\ post.result.method = ms[w].name
                 /\ post.result.events = ms[w].matches
                 /\ Len(ms[w].matches) >= 2
                 /\ \A u \in 1..Len(ms) :
                       Len(ms[u].matches) >= 2 =>
                          /\ ~ScoresHigher(ms[u].matches, ms[w].matches,
                                           post.cfg.ideal_gap, post.sr)
                          /\ u < w => ScoresHigher(ms[w].matches, ms[u].matches,
                                                   post.cfg.ideal_gap, post.sr)

\* A later method strictly beats the evenly spaced one, and another scored
\* method ties with the one returned.
C13_Witness ==
    /\ post.pc = "done"
    /\ Len(post.all_matches) > post.cfg.expected_count
    /\ post.result.method = "Realistic Spacing"
    /\ LET ms == Methods(post.all_matches, post.cfg, post.sr)
       IN /\ Len(ms[3].matches) >= 2
          /\ ms[3].matches # ms[2].matches
          /\ ~ScoresHigher(ms[2].matches, ms[3].matches, post.cfg.ideal_gap, post.sr)

(***************************************************************************)
(* Correlation Matcher as an object: InningPatternMatcher                  *)
(* (audio_processing/pattern_matching.py).  Its fields are the reference   *)
(* pattern, the audio, the sample rate and correlation_scores; a field     *)
(* that is None is [is_none |-> TRUE].  find_pattern_matches may be called *)
(* again and again on the same object.                                     *)
(***************************************************************************)
MaxAudioLen == 4

MaxCalls == 2

MatchSamples == {-1, 0, 1, 2}

NoneField == [is_none |-> TRUE, value |-> <<>>]

Loaded(x) == [is_none |-> FALSE, value |-> x]

MatchBuffers(maxlen) == UNION { [1..n -> MatchSamples] : n \in 1..maxlen }

\* correlation_threshold as the threshold of the trace correlation: the
\* value permille / 1000, on the scale of the numerators v[i] of v[i] / den.
AbsoluteThreshold(correlation, permille) ==
    [nan |-> FALSE, m |-> permille * correlation.den]

\* Lines 108-146 of find_pattern_matches: [correlation, matches].
PatternMatches(reference_pattern, audio_data, audio_sr, correlation_threshold, min_time_gap) ==
    LET ref_normalized == PeakNormalize(reference_pattern)
        audio_normalized == PeakNormalize(audio_data)
        correlation == SimilarityTrace(audio_normalized, ref_normalized)
        peaks == ExtractCandidates(correlation,
                                   AbsoluteThreshold(correlation, correlation_threshold),
                                   MinGapSamples(min_time_gap, audio_sr))
    IN [correlation |-> correlation,
        matches |-> SortByScoreDesc([i \in 1..Len(peaks) |->
                                        [time |-> peaks[i].idx, score |-> peaks[i].score]])]

InitMatcher ==
    /\ matcher \in { [calls |-> 0, reference_pattern |-> r, audio_data |-> a,
                      audio_sr |-> 1, correlation_threshold |-> 300, min_time_gap |-> g,
                      correlation_scores |-> NoneField, returned |-> <<>>] :
                      r \in {NoneField} \cup { Loaded(x) : x \in MatchBuffers(MaxTemplateLen) },
                      a \in {NoneField} \cup { Loaded(x) : x \in MatchBuffers(MaxAudioLen) },
                      g \in MinGapChoices }
    /\ peak = Idle
    /\ cons = Idle
    /\ lib = Idle
    /\ build = Idle
    /\ run = Idle
    /\ post = Idle
    /\ filt = Idle
    /\ gemini = Idle
    /\ pipeline = Idle

\* find_pattern_matches, lines 89-146.
FindPatternMatches ==
    /\ matcher # Idle
    /\ matcher.calls < MaxCalls
    /\ \/ /\ matcher.reference_pattern.is_none \/ matcher.audio_data.is_none
          /\ matcher' = [matcher EXCEPT !.calls = @ + 1, !.returned = <<>>]
       \/ /\ ~matcher.reference_pattern.is_none
          /\ ~matcher.audio_data.is_none
          /\ LET r == PatternMatches(matcher.reference_pattern.value,
                                     matcher.audio_data.value, matcher.audio_sr,
                                     matcher.correlation_threshold, matcher.min_time_gap)
             IN matcher' = [matcher EXCEPT !.calls = @ + 1,
                                           !.returned = r.matches,
                                           !.correlation_scores = Loaded(r.correlation)]
    /\ UNCHANGED <<peak, cons, lib, build, run, post, filt, gemini, pipeline>>

NextMatcher == FindPatternMatches

SpecMatcher == InitMatcher /\ [][NextMatcher]_vars

\* The entries of the template are those of the signal from offset k on
\* (k counted from 0).
CopyAt(template, signal, k) ==
    /\ k >= 0
    /\ k + Len(template) <= Len(signal)
    /\ \A i \in 1..Len(template) : signal[k + i] = template[i]

\* C14 (self-match location): when the audio holds an identical copy of a
\* pattern that is not silent at offset k, the trace attains its maximum at
\* an index within one sample of k.
C14_SelfMatchLocation ==
    (matcher # Idle /\ ~matcher.correlation_scores.is_none) =>
        LET template == matcher.reference_pattern.value
            signal == matcher.audio_data.value
            trace == matcher.correlation_scores.value
        IN \A k \in 0..Len(signal) :
              (CopyAt(template, signal, k) /\ MaxAbs(template) > 0) =>
                  \E i \in 1..Len(trace.v) :
                      /\ Abs((i - 1) - k) <= 1
                      /\ \A j \in 1..Len(trace.v) : trace.v[j] <= trace.v[i]

\* C15 (self-match score): a pattern that is not silent matched against an
\* exact copy of itself scores 1.0: the one entry of the trace, v / den, has
\* v = den.
C15_SelfMatchScore ==
    ( /\ matcher # Idle
      /\ ~matcher.correlation_scores.is_none
      /\ matcher.audio_data.value = matcher.reference_pattern.value
      /\ MaxAbs(matcher.reference_pattern.value) > 0 ) =>
        LET trace == matcher.correlation_scores.value
        IN /\ Len(trace.v) = 1
           /\ ~trace.nan
           /\ trace.v[1] = trace.den

\* C18 (matcher purity): a call of find_pattern_matches changes no field of
\* the matcher: the signal, the pattern, the sample rate and
\* correlation_scores are after the call what they were before it.
C18_MatcherPurity ==
    [][ (matcher # Idle /\ matcher' # Idle) =>
          /\ matcher'.reference_pattern = matcher.reference_pattern
          /\ matcher'.audio_data = matcher.audio_data
          /\ matcher'.audio_sr = matcher.audio_sr
          /\ matcher'.correlation_scores = matcher.correlation_scores ]_vars

(***************************************************************************)
(* Scenario A on the loop of lines 126-164 and the consensus of lines      *)
(* 168-232: a signal with one pattern pasted at three offsets one minimum  *)
(* gap apart, noise of lower amplitude elsewhere, and a library of two     *)
(* perturbed copies of the pattern.  Times are in samples.                 *)
(***************************************************************************)
ScenarioGap == 3

ScenarioLen == 13

ScenarioPatterns == { <<3, -2>>, <<2, 3>> }

ScenarioNoise == {-1, 0, 1}

ScenarioTolerances == {1}

\* np.percentile(correlation, 99.7) leaves 0.3 % of a ten-minute trace,
\* some 39 700 entries, at or above the threshold: far more than the
\* entries at the three copies.  On a trace of a dozen entries that is the
\* median (500 permille); 997 permille leaves the highest entries only.
ScenarioPercentiles == {500, 997}

\* The three insertion offsets (counted from 0): 30 s, 90 s, 150 s with a
\* gap of 60 s become gap / 2, gap / 2 + gap, gap / 2 + 2 * gap.
Insertions == { (ScenarioGap \div 2) + j * ScenarioGap : j \in 0..2 }

\* The pattern with delta added to sample pos.
Perturbed(pattern, pos, delta) ==
    [i \in 1..Len(pattern) |-> IF i = pos THEN pattern[i] + delta ELSE pattern[i]]

\* The samples of the signal (counted from 1) that no pasted copy covers.
NoisePositions(pattern) ==
    { n \in 1..ScenarioLen : ~\E o \in Insertions : n - o \in 1..Len(pattern) }

\* The signals of the scenario for one pattern: a copy at every insertion
\* offset, any noise elsewhere.
ScenarioSignals(pattern) ==
    { [n \in 1..ScenarioLen |->
         IF n \in NoisePositions(pattern) THEN noise[n]
         ELSE LET o == CHOOSE x \in Insertions : n - x \in 1..Len(pattern)
              IN pattern[n - o]] :
        noise \in [NoisePositions(pattern) -> ScenarioNoise] }

\* A library holding the given buffers, peak-normalised as lines 43-49 do.
LibraryOf(buffers) ==
    [chime_templates |-> [t \in 1..Len(buffers) |-> PeakNormalize(buffers[t])],
     template_names |-> [t \in 1..Len(buffers) |-> TemplateNames[t]],
     templates_loaded |-> Len(buffers)]

InitScenario ==
    /\ \E pat \in ScenarioPatterns :
         run \in { [pc |-> "scenario", pattern |-> pat, signal |-> sig,
                    detector |-> LibraryOf(<<Perturbed(pat, 1, d1), Perturbed(pat, Len(pat), d2)>>),
                    cfg |-> [sr |-> 1, min_gap_seconds |-> ScenarioGap,
                             tolerance |-> tol, percentile |-> pc],
                    entries |-> <<>>, consensus_detections |-> <<>>] :
                    sig \in ScenarioSignals(pat),
                    d1 \in {-1, 1}, d2 \in {-1, 1},
                    tol \in ScenarioTolerances, pc \in ScenarioPercentiles }
    /\ peak = Idle
    /\ cons = Idle
    /\ lib = Idle
    /\ build = Idle
    /\ post = Idle
    /\ matcher = Idle
    /\ filt = Idle
    /\ gemini = Idle
    /\ pipeline = Idle

\* Lines 126-164 on the conditioned signal.
ScenarioDetect ==
    /\ run.pc = "scenario"
    /\ run' = [run EXCEPT
                 !.pc = "detected",
                 !.entries = [t \in 1..Len(run.detector.chime_templates) |->
                                TemplateEntry(run.detector, PeakNormalize(run.signal),
                                              run.cfg, t)]]
    /\ UNCHANGED <<peak, cons, lib, build, post, matcher, filt, gemini, pipeline>>

\* Lines 168-232 on the detections of the loop.
ScenarioCombine ==
    /\ run.pc = "detected"
    /\ run' = [run EXCEPT
                 !.pc = "confirmed",
                 !.consensus_detections =
                     combine_template_results(
                         [t \in 1..Len(run.entries) |-> run.entries[t].detections],
                         run.cfg.tolerance * run.cfg.sr)]
    /\ UNCHANGED <<peak, cons, lib, build, post, matcher, filt, gemini, pipeline>>

NextScenario == ScenarioDetect \/ ScenarioCombine

SpecScenario == InitScenario /\ [][NextScenario]_vars

\* C16 (Scenario A): exactly three detections are confirmed, one within one
\* sample of each insertion offset.
C16_ScenarioA ==
    run.pc = "confirmed" =>
        /\ Len(run.consensus_detections) = 3
        /\ \A o \in Insertions :
              \E d \in 1..Len(run.consensus_detections) :
                  Abs(run.consensus_detections[d].time - o) <= 1

(***************************************************************************)
(* The loop body of lines 126-164 run once per template in any order, as   *)
(* one worker per template would, all_detections filled in the order the   *)
(* workers finish, and combine_template_results after all have finished.   *)
(***************************************************************************)
ParallelRecordings == { a \in AudioBuffers(MaxSignalLen) : Len(a) >= 2 }

ParallelConfigs == { c \in RunConfigs : c.tolerance >= 1 }

ParallelExemplars ==
    { [exists |-> TRUE, audio |-> <<2>>],
      [exists |-> TRUE, audio |-> <<2, 0>>],
      [exists |-> TRUE, audio |-> <<-1, 2, 0>>] }

InitParallel ==
    /\ run \in { [pc |-> "forked", recording |-> [exists |-> TRUE, audio |-> a],
                  cfg |-> c, detector |-> load_chime_templates(f).detector,
                  pending |-> 1..Len(load_chime_templates(f).detector.chime_templates),
                  finished |-> <<>>, consensus_detections |-> <<>>] :
                  f \in [1..NumTemplates -> ParallelExemplars], a \in ParallelRecordings,
                  c \in ParallelConfigs }
    /\ Len(run.detector.chime_templates) >= 2
    /\ peak = Idle
    /\ cons = Idle
    /\ lib = Idle
    /\ build = Idle
    /\ post = Idle
    /\ matcher = Idle
    /\ filt = Idle
    /\ gemini = Idle
    /\ pipeline = Idle

\* One worker finishes: lines 129-163 for its template.
WorkerFinish ==
    /\ run.pc = "forked"
    /\ \E t \in run.pending :
         run' = [run EXCEPT
                   !.pending = @ \ {t},
                   !.finished = Append(@,
                       TemplateEntry(run.detector,
                                     PeakNormalize(frequency_band_filter(run.recording.audio)),
                                     run.cfg, t))]
    /\ UNCHANGED <<peak, cons, lib, build, post, matcher, filt, gemini, pipeline>>

\* The join and lines 175-232 on all_detections as the workers filled it.
JoinAndCombine ==
    /\ run.pc = "forked"
    /\ run.pending = {}
    /\ run' = [run EXCEPT
                 !.pc = "joined",
                 !.consensus_detections =
                     combine_template_results(
                         [i \in 1..Len(run.finished) |-> run.finished[i].detections],
                         run.cfg.tolerance * run.cfg.sr)]
    /\ UNCHANGED <<peak, cons, lib, build, post, matcher, filt, gemini, pipeline>>

NextParallel == WorkerFinish \/ JoinAndCombine

SpecParallel == InitParallel /\ [][NextParallel]_vars

\* What the claim compares of a detection list.
Confirmed(detections) ==
    { [time |-> detections[d].time, score |-> detections[d].score,
       strength |-> detections[d].strength] : d \in 1..Len(detections) }

\* The run in library order: detect_with_multiple_templates.
Sequential == detect_with_multiple_templates(run.detector, run.recording, run.cfg)

\* C17 (data-parallel independence): whatever the order in which the
\* templates are processed, each template's entry is the one the loop in
\* library order gives it, and the confirmed detections (time, score,
\* strength) are those of the run in library order.
C17_ParallelIndependence ==
    /\ run.pc \in {"forked", "joined"} =>
          \A i \in 1..Len(run.finished) :
              \E t \in 1..Len(Sequential.entries) :
                  run.finished[i] = Sequential.entries[t]
    /\ run.pc = "joined" =>
          Confirmed(run.consensus_detections)
            = Confirmed(combine_template_results(AllDetections(Sequential),
                                                 run.cfg.tolerance * run.cfg.sr))

\* The workers finished in another order than the library's and a detection
\* was confirmed.
C17_Witness ==
    /\ run.pc = "joined"
    /\ Len(run.finished) >= 2
    /\ run.finished[1].name # run.detector.template_names[1]
    /\ run.finished[1].detections # run.finished[2].detections
    /\ run.consensus_detections # <<>>

(***************************************************************************)
(* Signal Conditioner: AudioFilter (audio_filtering.py).  Arrays live in a *)
(* heap, a sequence of cells [v, num, den] (the samples v[i] * num / den); *)
(* an array is its index in the heap, so that a write through one name is  *)
(* seen through every other name of the same array.  The arithmetic of the *)
(* stages is on the integer grid: the Butterworth cascade is the first     *)
(* difference above, spectral subtraction lowers every magnitude by one    *)
(* down to the floor and keeps whole hops only, the compressor halves what *)
(* exceeds its threshold, the gate zeroes what is below its threshold.     *)
(***************************************************************************)
Sign(x) == IF x > 0 THEN 1 ELSE IF x < 0 THEN -1 ELSE 0

\* A new array holding cell: the heap afterwards and the array's index.
Alloc(heap, cell) == [heap |-> Append(heap, cell), id |-> Len(heap) + 1]

Cell(v) == [v |-> v, num |-> 1, den |-> 1]

\* Lines 58-76: sosfilt returns a new array.
FrequencyBandStage(heap, id) ==
    Alloc(heap, Cell(frequency_band_filter(heap[id].v)))

\* Lines 30-56: stft, magnitude - noise floored at a tenth, istft; the
\* result is a new array of whole hops (here a hop is two samples).
SpectralSubtractionStage(heap, id) ==
    LET x == heap[id].v
        n == 2 * (Len(x) \div 2)
    IN Alloc(heap, Cell([i \in 1..n |->
                           IF Abs(x[i]) >= 2 THEN x[i] - Sign(x[i]) ELSE x[i]]))

\* The compressed value of one sample (threshold 1, ratio 2 on the grid).
Compressed(x) == IF Abs(x) > 1 THEN Sign(x) * (1 + (Abs(x) - 1) \div 2) ELSE x

\* dynamic_range_compression writing into the array it was given.
CompressionInPlace(heap, id) ==
    [heap |-> [heap EXCEPT ![id] = Cell([i \in 1..Len(heap[id].v) |->
                                           Compressed(heap[id].v[i])])],
     id |-> id]

\* Lines 78-97: compressed = np.copy(audio_data), then the loud samples of
\* the copy are overwritten in place and the copy is returned.
DynamicRangeCompression(heap, id) ==
    LET copy == Alloc(heap, heap[id])
    IN [heap |-> [copy.heap EXCEPT ![copy.id] =
                     Cell([i \in 1..Len(heap[id].v) |-> Compressed(heap[id].v[i])])],
        id |-> copy.id]

\* Lines 99-126: audio_data * gate is a new array.
AdaptiveNoiseGate(heap, id) ==
    Alloc(heap, Cell([i \in 1..Len(heap[id].v) |->
                        IF Abs(heap[id].v[i]) < 2 THEN 0 ELSE heap[id].v[i]]))

FlagNames == {"spectral_subtraction", "frequency_band", "compression", "noise_gate"}

\* filter_config: None, or a dict holding any of the four flags.
FilterConfigs ==
    { NoneField } \cup
    { Loaded(c) : c \in UNION { [D -> BOOLEAN] : D \in SUBSET FlagNames } }

\* filter_config.get(flag, False): a missing flag switches its stage off.
FlagOnNoDefault(filter_config, flag) ==
    IF filter_config.is_none THEN TRUE
    ELSE IF flag \in DOMAIN filter_config.value THEN filter_config.value[flag]
    ELSE FALSE

\* filter_config.get(flag, True), after the default dict of lines 132-138.
FlagOn(filter_config, flag) ==
    IF filter_config.is_none THEN TRUE
    ELSE IF flag \in DOMAIN filter_config.value THEN filter_config.value[flag]
    ELSE TRUE

\* The line each method prints when it is entered (lines 35, 63, 83, 103
\* and 140).
Banner ==
    [spectral_subtraction |-> "Applying spectral subtraction filter...",
     frequency_band |-> "Applying frequency band filter...",
     compression |-> "Applying dynamic range compression...",
     noise_gate |-> "Applying adaptive noise gate...",
     combined |-> "Applying combined audio filtering..."]

\* The result r of a method together with what is printed so far.
Printing(r, printed, line) ==
    [heap |-> r.heap, id |-> r.id, printed |-> Append(printed, line)]

\* Lines 128-161: apply_combined_filter.
ApplyCombinedFilter(heap, id, filter_config) ==
    LET s0 == Printing(Alloc(heap, heap[id]), <<>>, Banner.combined)
        s1 == IF FlagOn(filter_config, "frequency_band")
              THEN Printing(FrequencyBandStage(s0.heap, s0.id), s0.printed,
                            Banner.frequency_band)
              ELSE s0
        s2 == IF FlagOn(filter_config, "spectral_subtraction")
              THEN Printing(SpectralSubtractionStage(s1.heap, s1.id), s1.printed,
                            Banner.spectral_subtraction)
              ELSE s1
        s3 == IF FlagOn(filter_config, "compression")
              THEN Printing(DynamicRangeCompression(s2.heap, s2.id), s2.printed,
                            Banner.compression)
              ELSE s2
        s4 == IF FlagOn(filter_config, "noise_gate")
              THEN Printing(AdaptiveNoiseGate(s3.heap, s3.id), s3.printed,
                            Banner.noise_gate)
              ELSE s3
        max_val == MaxAbs(s4.heap[s4.id].v)
        scaled == Alloc(s4.heap, [v |-> s4.heap[s4.id].v, num |-> 4, den |-> 5 * max_val])
    IN IF max_val > 0
       THEN [heap |-> scaled.heap, id |-> scaled.id, printed |-> s4.printed]
       ELSE s4

ConditionerInputs == AudioBuffers(MaxSignalLen) \ {<<>>}

InitFilt ==
    /\ filt \in { [pc |-> "input", heap |-> <<Cell(a)>>, audio_data |-> 1,
                   before |-> Cell(a), called |-> "none", config |-> NoneField,
                   returned |-> 0, printed |-> <<>>] : a \in ConditionerInputs }
    /\ peak = Idle
    /\ cons = Idle
    /\ lib = Idle
    /\ build = Idle
    /\ run = Idle
    /\ post = Idle
    /\ matcher = Idle
    /\ gemini = Idle
    /\ pipeline = Idle

Return(name, config, r) ==
    filt' = [filt EXCEPT !.pc = "returned", !.called = name, !.config = config,
                         !.heap = r.heap, !.returned = r.id, !.printed = r.printed]

CallApplyCombinedFilter ==
    /\ filt.pc = "input"
    /\ \E c \in FilterConfigs :
          Return("apply_combined_filter", c, ApplyCombinedFilter(filt.heap, filt.audio_data, c))
    /\ UNCHANGED <<peak, cons, lib, build, run, post, matcher, gemini, pipeline>>

CallFrequencyBandFilter ==
    /\ filt.pc = "input"
    /\ Return("frequency_band_filter", NoneField,
              Printing(FrequencyBandStage(filt.heap, filt.audio_data), <<>>,
                       Banner.frequency_band))
    /\ UNCHANGED <<peak, cons, lib, build, run, post, matcher, gemini, pipeline>>

CallSpectralSubtractionFilter ==
    /\ filt.pc = "input"
    /\ Return("spectral_subtraction_filter", NoneField,
              Printing(SpectralSubtractionStage(filt.heap, filt.audio_data), <<>>,
                       Banner.spectral_subtraction))
    /\ UNCHANGED <<peak, cons, lib, build, run, post, matcher, gemini, pipeline>>

CallDynamicRangeCompression ==
    /\ filt.pc = "input"
    /\ Return("dynamic_range_compression", NoneField,
              Printing(DynamicRangeCompression(filt.heap, filt.audio_data), <<>>,
                       Banner.compression))
    /\ UNCHANGED <<peak, cons, lib, build, run, post, matcher, gemini, pipeline>>

CallAdaptiveNoiseGate ==
    /\ filt.pc = "input"
    /\ Return("adaptive_noise_gate", NoneField,
              Printing(AdaptiveNoiseGate(filt.heap, filt.audio_data), <<>>,
                       Banner.noise_gate))
    /\ UNCHANGED <<peak, cons, lib, build, run, post, matcher, gemini, pipeline>>

NextFilt ==
    \/ CallApplyCombinedFilter
    \/ CallFrequencyBandFilter
    \/ CallSpectralSubtractionFilter
    \/ CallDynamicRangeCompression
    \/ CallAdaptiveNoiseGate

SpecFilt == InitFilt /\ [][NextFilt]_vars

\* C19 (conditioner frame): whatever was called and with whatever
\* configuration, the array returned is not the caller's array and the
\* caller's array holds the samples it held before the call.
C19_ConditionerFrame ==
    filt.pc = "returned" =>
        /\ filt.returned # filt.audio_data
        /\ filt.returned \in 1..Len(filt.heap)
        /\ filt.heap[filt.audio_data] = filt.before

\* The combined filter returned with every stage switched off on a silent
\* recording, where nothing but the copy of line 141 is allocated.
C19_Witness ==
    /\ filt.pc = "returned"
    /\ filt.called = "apply_combined_filter"
    /\ ~filt.config.is_none
    /\ \A f \in FlagNames : ~FlagOn(filt.config, f)
    /\ MaxAbs(filt.before.v) = 0
    /\ Len(filt.heap) = 2

(***************************************************************************)
(* The groups of combine_template_results (lines 186-225), every one of    *)
(* them, promoted or not.                                                  *)
(***************************************************************************)
RECURSIVE Groups(_, _, _)
Groups(all_times, i, tolerance) ==
    IF i > Len(all_times) THEN <<>>
    ELSE LET j == GroupEnd(all_times, i, i + 1, tolerance)
         IN <<SubSeq(all_times, i, j - 1)>>
            \o Groups(all_times, IF j > i + 1 THEN j ELSE i + 1, tolerance)

RECURSIVE Concat(_)
Concat(ss) == IF ss = <<>> THEN <<>> ELSE Head(ss) \o Concat(Tail(ss))

RECURSIVE Promoted(_)
Promoted(gs) ==
    IF gs = <<>> THEN <<>>
    ELSE (IF Len(Head(gs)) >= 2 THEN <<ConsensusOf(Head(gs))>> ELSE <<>>)
         \o Promoted(Tail(gs))

\* C20 (consensus clustering): the groups are consecutive runs of the
\* detections sorted by time, each detection in exactly one group; every
\* member is within the tolerance of the first member of its group; the
\* first member of a group is more than the tolerance after the first
\* member of the group before; and the detections returned are those of
\* the groups of two or more.
C20_ConsensusClustering ==
    cons.pc = "done" =>
        LET all_times == SortByTime(FlattenFrom(cons.all_detections, 1))
            gs == Groups(all_times, 1, cons.tolerance)
        IN /\ Concat(gs) = all_times
           /\ \A g \in 1..Len(gs) :
                 /\ gs[g] # <<>>
                 /\ \A k \in 1..Len(gs[g]) :
                       /\ gs[g][k].time >= gs[g][1].time
                       /\ gs[g][k].time - gs[g][1].time <= cons.tolerance
                 /\ g > 1 => gs[g][1].time - gs[g - 1][1].time > cons.tolerance
           /\ Confirmed(cons.consensus_detections) = Confirmed(Promoted(gs))
           /\ Len(cons.consensus_detections) = Len(Promoted(gs))

\* Three detections in a chain: the third is within the tolerance of the
\* second but not of the first, and opens a group of its own.
C20_Witness ==
    /\ cons.pc = "done"
    /\ cons.tolerance >= 1
    /\ LET all_times == SortByTime(FlattenFrom(cons.all_detections, 1))
           gs == Groups(all_times, 1, cons.tolerance)
       IN /\ Len(gs) >= 2
          /\ Len(gs[1]) >= 2
          /\ gs[2][1].time - gs[1][Len(gs[1])].time <= cons.tolerance

(***************************************************************************)
(* The representative of a group (lines 204-218).                          *)
(***************************************************************************)
\* The group of the sorted detections that holds the time x (groups cover
\* disjoint ranges of time).
GroupOfTime(gs, x) ==
    CHOOSE g \in 1..Len(gs) : \E k \in 1..Len(gs[g]) : gs[g][k].time = x

\* C21 (cluster representative): the time and score of every detection are
\* those of one member of its group; no member of the group has a strictly
\* higher score; and no member with that same score is earlier in time.
\* The strength is the size of that group.
C21_ClusterRepresentative ==
    cons.pc = "done" =>
        LET all_times == SortByTime(FlattenFrom(cons.all_detections, 1))
            gs == Groups(all_times, 1, cons.tolerance)
        IN \A d \in 1..Len(cons.consensus_detections) :
              LET det == cons.consensus_detections[d]
              IN /\ \E g \in 1..Len(gs) : \E k \in 1..Len(gs[g]) : gs[g][k].time = det.time
                 /\ LET group == gs[GroupOfTime(gs, det.time)]
                    IN /\ det.strength = Len(group)
                       /\ \E k \in 1..Len(group) :
                             /\ group[k].time = det.time
                             /\ group[k].score = det.score
                       /\ \A m \in 1..Len(group) :
                             /\ group[m].score <= det.score
                             /\ group[m].score = det.score => group[m].time >= det.time

\* A group of three: the earliest member scores lowest and the two later
\* members tie for the highest score at different times.
C21_Witness ==
    /\ cons.pc = "done"
    /\ Len(cons.consensus_detections) = 1
    /\ LET all_times == SortByTime(FlattenFrom(cons.all_detections, 1))
       IN /\ Len(all_times) = 3
          /\ cons.consensus_detections[1].strength = 3
          /\ all_times[1].score < all_times[2].score
          /\ all_times[2].score = all_times[3].score
          /\ all_times[2].time < all_times[3].time
          /\ cons.consensus_detections[1].time = all_times[2].time

(***************************************************************************)
(* The three selection methods of analyze_chronological_transitions        *)
(* (lines 62-93), each on the list all_matches the call was given.         *)
(***************************************************************************)
\* The branch of line 62 was taken: the methods were computed.
MethodsRan == post.pc = "done" /\ Len(post.all_matches) >= post.cfg.expected_count

MethodMatches(k) == Methods(post.all_matches, post.cfg, post.sr)[k].matches

TimesOf(matches) == { matches[i].time : i \in 1..Len(matches) }

StrictlyIncreasing(matches) ==
    \A i \in 1..(Len(matches) - 1) : matches[i].time < matches[i + 1].time

\* C22 (greedy minimum spacing): a detection is accepted exactly when fewer
\* than expected_count are accepted before it and it is the earliest or at
\* least the minimum spacing after the last one accepted before it; the
\* result has at most expected_count events, in increasing time order, with
\* adjacent gaps of at least the minimum spacing.
C22_GreedySpacing ==
    MethodsRan =>
        LET all_matches == post.all_matches
            r == MethodMatches(2)
            spacing == post.cfg.min_spacing * post.sr
            A == TimesOf(r)
        IN /\ Len(r) <= post.cfg.expected_count
           /\ Cardinality(A) = Len(r)
           /\ \A i \in 1..Len(r) : \E k \in 1..Len(all_matches) : all_matches[k] = r[i]
           /\ StrictlyIncreasing(r)
           /\ \A i \in 1..(Len(r) - 1) : r[i + 1].time - r[i].time >= spacing
           /\ r # <<>> /\ r[1] = all_matches[1]
           /\ \A k \in 1..Len(all_matches) :
                 LET before == { a \in A : a < all_matches[k].time }
                 IN all_matches[k].time \in A <=>
                       /\ Cardinality(before) < post.cfg.expected_count
                       /\ \/ before = {}
                          \/ \A a \in before : all_matches[k].time - a >= spacing

\* A detection is refused for its gap, and the walk stops at expected_count
\* with a detection left that is far enough after the last accepted one.
C22_Witness ==
    /\ MethodsRan
    /\ LET all_matches == post.all_matches
           r == MethodMatches(2)
           spacing == post.cfg.min_spacing * post.sr
       IN /\ Len(r) = post.cfg.expected_count
          /\ \E k \in 1..Len(all_matches) :
                /\ all_matches[k].time \notin TimesOf(r)
                /\ all_matches[k].time < r[Len(r)].time
          /\ \E k \in 1..Len(all_matches) :
                all_matches[k].time - r[Len(r)].time >= spacing

\* Index i of method 1, counted from 0: floor(i * n / expected_count).
EvenIndex(i, n, N) == (i * n) \div N

\* C23 (evenly spaced): the method picks the detections at the indices
\* floor(i * n / expected_count), i = 0 .. expected_count - 1; the indices
\* are within 0 .. n - 1 and pairwise distinct, the result has exactly
\* expected_count different detections in strictly increasing time order
\* and holds the earliest detection.
C23_EvenlySpaced ==
    MethodsRan =>
        LET all_matches == post.all_matches
            n == Len(all_matches)
            N == post.cfg.expected_count
            r == MethodMatches(1)
        IN /\ Len(r) = N
           /\ \A i \in 0..(N - 1) :
                 /\ EvenIndex(i, n, N) \in 0..(n - 1)
                 /\ r[i + 1] = all_matches[EvenIndex(i, n, N) + 1]
                 /\ \A j \in 0..(N - 1) : i # j => EvenIndex(i, n, N) # EvenIndex(j, n, N)
           /\ Cardinality({ r[i] : i \in 1..N }) = N
           /\ StrictlyIncreasing(r)
           /\ r[1] = all_matches[1]

\* More detections than expected and not a multiple of it: the step is not
\* a whole number and the last detection is not picked.
C23_Witness ==
    /\ MethodsRan
    /\ Len(post.all_matches) > post.cfg.expected_count
    /\ Len(post.all_matches) % post.cfg.expected_count # 0
    /\ MethodMatches(1)[post.cfg.expected_count] # post.all_matches[Len(post.all_matches)]
    /\ \E i \in 1..(post.cfg.expected_count - 1) :
          EvenIndex(i, Len(post.all_matches), post.cfg.expected_count)
              # i * (Len(post.all_matches) \div post.cfg.expected_count)

\* C24 (top scores): the method returns exactly expected_count of the
\* detections, by increasing time, and no detection left out has a
\* strictly higher score than a detection that was kept.
C24_TopScores ==
    MethodsRan =>
        LET all_matches == post.all_matches
            r == MethodMatches(3)
        IN /\ Len(r) = post.cfg.expected_count
           /\ StrictlyIncreasing(r)
           /\ \A i \in 1..Len(r) : \E k \in 1..Len(all_matches) : all_matches[k] = r[i]
           /\ \A k \in 1..Len(all_matches) :
                 all_matches[k].time \notin TimesOf(r) =>
                    \A i \in 1..Len(r) : all_matches[k].score <= r[i].score

\* The earliest detection scores lowest and is left out; two detections
\* tie at the cut and only one of them is kept.
C24_Witness ==
    /\ MethodsRan
    /\ LET all_matches == post.all_matches
           r == MethodMatches(3)
       IN /\ all_matches[1].time \notin TimesOf(r)
          /\ \E i \in 1..Len(r) : all_matches[1].score < r[i].score
          /\ \E k \in 1..Len(all_matches) : \E i \in 1..Len(r) :
                /\ all_matches[k].time \notin TimesOf(r)
                /\ all_matches[k].score = r[i].score

(***************************************************************************)
(* Combined thresholds: OptimizedInningDetector.detect_innings_optimized   *)
(* (percentile and fraction of the maximum) and                            *)
(* FinalInningDetector.detect_innings_with_filtering (mean + k * std and   *)
(* percentile).  A threshold is [nan, a, r, d]: the value                  *)
(* (a + sqrt(r)) / d with d > 0 and r >= 0, so that mean + k * std is      *)
(* exact: with n entries of sum S and sum of squares Q,                    *)
(* mean + k * std = (S + sqrt(k * k * (n * Q - S * S))) / n.               *)
(***************************************************************************)
NanThreshold == [nan |-> TRUE, a |-> 0, r |-> 0, d |-> 1]

\* np.max(correlation)
RECURSIVE SeqMax(_)
SeqMax(s) == IF Len(s) = 1 THEN s[1] ELSE Max2(Head(s), SeqMax(Tail(s)))

\* np.percentile(correlation, p / 10)
PercentileThreshold(trace, p) ==
    IF trace.nan THEN NanThreshold
    ELSE [nan |-> FALSE, a |-> Percentile(trace, p).m, r |-> 0, d |-> 1000]

\* correlation_max * 0.6 (the fraction in permille)
FractionThreshold(trace, fraction) ==
    IF trace.nan THEN NanThreshold
    ELSE [nan |-> FALSE, a |-> fraction * SeqMax(trace.v), r |-> 0, d |-> 1000]

\* correlation_mean + (k * correlation_std), np.std being the population
\* standard deviation.
StatisticalThreshold(trace, k) ==
    IF trace.nan THEN NanThreshold
    ELSE LET n == Len(trace.v)
             S == SeqSum(trace.v)
             Q == SumSquares(trace.v)
         IN [nan |-> FALSE, a |-> S, r |-> k * k * (n * Q - S * S), d |-> n]

\* y > x for two thresholds of which at most one has a square root; every
\* comparison with NaN is false.
ThresholdGreater(y, x) ==
    IF x.nan \/ y.nan THEN FALSE
    ELSE LET c == x.a * y.d - y.a * x.d
         IN IF x.r = 0 /\ y.r = 0 THEN 0 > c
            ELSE IF x.r = 0 THEN c < 0 \/ x.d * x.d * y.r > c * c
            ELSE (-c) > 0 /\ c * c > y.d * y.d * x.r

\* The lower of the two thresholds.
PyMin(x, y) == IF ThresholdGreater(x, y) THEN y ELSE x

\* Python's max(x, y): y when y > x, otherwise x.
PyMax(x, y) == IF ThresholdGreater(y, x) THEN y ELSE x

\* threshold <= height for the entry x of the trace.
Clears(x, thr) ==
    /\ ~thr.nan
    /\ x * thr.d - thr.a >= 0
    /\ (x * thr.d - thr.a) * (x * thr.d - thr.a) >= thr.r

\* find_peaks(correlation, height=final_threshold, distance=min_gap_samples)
\* and the list of (idx, correlation[idx]) sorted by score, highest first.
DetectionsAbove(trace, thr, distance) ==
    LET P == { m \in LocalMaxima(trace) : Clears(trace.v[m], thr) }
        idx == SetToSortedSeq(SelectByPeakDistance(trace, P, distance))
    IN SortByScoreDesc([i \in 1..Len(idx) |->
                          [idx |-> idx[i] - 1, score |-> trace.v[idx[i]]]])

(***************************************************************************)
(* Specification SpecCombined: one trace, one gap and the parameters of    *)
(* the strategies; each detector returns its detections, and next to them  *)
(* are kept the detections each of its two thresholds gives alone.         *)
(***************************************************************************)
CombinedPercentiles == {0, 500, 985, 998}
Fractions == {600}
Deviations == {1, 3}

InitCombined ==
    /\ peak \in { [pc |-> "correlated", trace |-> t, sr |-> sr, min_gap_seconds |-> g,
                   percentile |-> p, fraction |-> f, k |-> k, detector |-> "none",
                   detections |-> <<>>, first_alone |-> <<>>, second_alone |-> <<>>] :
                   t \in Traces, sr \in SampleRates, g \in MinGapChoices,
                   p \in CombinedPercentiles, f \in Fractions, k \in Deviations }
    /\ cons = Idle
    /\ lib = Idle
    /\ build = Idle
    /\ run = Idle
    /\ post = Idle
    /\ matcher = Idle
    /\ filt = Idle
    /\ gemini = Idle
    /\ pipeline = Idle

\* The detector's return for the two thresholds x, y (in the order of its
\* call of max), and the returns for x alone and y alone.
Detected(name, x, y) ==
    LET d == MinGapSamples(peak.min_gap_seconds, peak.sr)
    IN [peak EXCEPT !.pc = "done", !.detector = name,
                    !.detections = DetectionsAbove(peak.trace, PyMax(x, y), d),
                    !.first_alone = DetectionsAbove(peak.trace, x, d),
                    !.second_alone = DetectionsAbove(peak.trace, y, d)]

\* optimized_final_system.py lines 81-115.
DetectInningsOptimized ==
    /\ peak.pc = "correlated"
    /\ peak.k = 1
    /\ peak' = Detected("optimized",
                        PercentileThreshold(peak.trace, peak.percentile),
                        FractionThreshold(peak.trace, peak.fraction))
    /\ UNCHANGED <<cons, lib, build, run, post, matcher, filt, gemini, pipeline>>

\* final_pattern_matching.py lines 88-122.
DetectInningsWithFiltering ==
    /\ peak.pc = "correlated"
    /\ peak' = Detected("final",
                        StatisticalThreshold(peak.trace, peak.k),
                        PercentileThreshold(peak.trace, peak.percentile))
    /\ UNCHANGED <<cons, lib, build, run, post, matcher, filt, gemini, pipeline>>

NextCombined == DetectInningsOptimized \/ DetectInningsWithFiltering

SpecCombined == InitCombined /\ [][NextCombined]_vars

IndicesOf(detections) == { detections[i].idx : i \in 1..Len(detections) }

\* C25 (combined thresholds): with the maximum of two thresholds, the
\* candidates are exactly those that both thresholds give alone on the same
\* trace and gap, with the same scores.
C25_CombinedThresholds ==
    peak.pc = "done" =>
        /\ IndicesOf(peak.detections)
              = IndicesOf(peak.first_alone) \cap IndicesOf(peak.second_alone)
        /\ \A i \in 1..Len(peak.detections) :
              \E j \in 1..Len(peak.first_alone) : peak.first_alone[j] = peak.detections[i]
        /\ Len(peak.detections) = Cardinality(IndicesOf(peak.detections))

\* The second threshold is the higher one and drops a candidate that the
\* first alone returns, while a candidate is left.
C25_Witness ==
    /\ peak.pc = "done"
    /\ peak.detector = "optimized"
    /\ peak.detections # <<>>
    /\ Len(peak.second_alone) < Len(peak.first_alone)
    /\ peak.min_gap_seconds * peak.sr >= 2

(***************************************************************************)
(* The candidates of detect_with_multiple_templates (lines 146-163), read  *)
(* against the trace they were taken from.                                 *)
(***************************************************************************)
\* C26 (candidate validity): every candidate sits at an interior index of
\* its trace, where the trace has a local maximum; its score is the trace
\* value at that index and is at least the threshold; its time is that
\* index (in samples, time_sec * sr); and a trace of fewer than three
\* entries has no candidate.
C26_CandidateValidity ==
    (run.pc \in {"returned", "done"} /\ run.ret.shape = "tuple") =>
        \A t \in 1..Len(run.ret.entries) :
            LET e == run.ret.entries[t]
                x == e.correlation.v
                thr == Percentile(e.correlation, run.cfg.percentile)
            IN /\ \A i \in 1..Len(e.detections) :
                     LET idx == e.detections[i].time
                     IN /\ ~e.correlation.nan
                        /\ idx \in 1..(Len(x) - 2)
                        /\ IsLocalMaximum(x, idx + 1)
                        /\ x[idx + 1] >= x[idx] /\ x[idx + 1] >= x[idx + 2]
                        /\ e.detections[i].score
                              = x[idx + 1] * ScaleOthers(run.detector.chime_templates, t, 1)
                        /\ 1000 * x[idx + 1] >= thr.m
               /\ Len(x) < 3 => e.detections = <<>>

\* One call where a template has a candidate and another template, as long
\* as the signal, has a trace of one entry and no candidate.
C26_Witness ==
    /\ run.pc = "returned"
    /\ run.ret.shape = "tuple"
    /\ \E t \in 1..Len(run.ret.entries) : run.ret.entries[t].detections # <<>>
    /\ \E t \in 1..Len(run.ret.entries) :
          /\ ~run.ret.entries[t].correlation.nan
          /\ Len(run.ret.entries[t].correlation.v) = 1
          /\ Len(run.detector.chime_templates[t].v) = Len(run.recording.audio)
          /\ run.ret.entries[t].detections = <<>>

(***************************************************************************)
(* The stages of apply_combined_filter (lines 143-159), read from what the *)
(* call printed and allocated.                                             *)
(***************************************************************************)
\* The flag is enabled in the configuration record: the record is None, or
\* it lacks the flag, or it holds the flag as True.
Enabled(config, flag) ==
    \/ config.is_none
    \/ flag \notin DOMAIN config.value
    \/ config.value[flag]

StageOrder == <<"frequency_band", "spectral_subtraction", "compression", "noise_gate">>

\* The banners of the enabled stages from position k of the fixed order.
RECURSIVE ExpectedBanners(_, _)
ExpectedBanners(config, k) ==
    IF k > Len(StageOrder) THEN <<>>
    ELSE (IF Enabled(config, StageOrder[k]) THEN <<Banner[StageOrder[k]]>> ELSE <<>>)
         \o ExpectedBanners(config, k + 1)

\* C27 (independent stage toggles): in apply_combined_filter a stage runs
\* exactly when its own flag is enabled (a missing flag counts as enabled),
\* the enabled stages run in the order frequency band, spectral
\* subtraction, compression, noise gate, each returning one new array, and
\* the peak renormalisation comes last: the array returned is the stages'
\* output scaled to a peak of 0.8, a silent output being returned as it is.
C27_IndependentToggles ==
    (filt.pc = "returned" /\ filt.called = "apply_combined_filter") =>
        LET banners == ExpectedBanners(filt.config, 1)
            out == filt.heap[filt.returned]
        IN /\ filt.printed = <<Banner.combined>> \o banners
           /\ filt.returned = Len(filt.heap)
           /\ IF MaxAbs(out.v) > 0
              THEN /\ Len(filt.heap) = 2 + Len(banners) + 1
                   /\ out.num = 4
                   /\ out.den = 5 * MaxAbs(out.v)
                   /\ filt.heap[filt.returned - 1] = Cell(out.v)
              ELSE /\ Len(filt.heap) = 2 + Len(banners)
                   /\ out.num = 1 /\ out.den = 1

\* A record that switches the last stage off, names compression as on and
\* leaves the other two flags out: three stages run, in order, and the
\* output is renormalised.
C27_Witness ==
    /\ filt.pc = "returned"
    /\ filt.called = "apply_combined_filter"
    /\ ~filt.config.is_none
    /\ DOMAIN filt.config.value = {"compression", "noise_gate"}
    /\ filt.config.value["compression"]
    /\ ~filt.config.value["noise_gate"]
    /\ filt.printed = <<Banner.combined, Banner.frequency_band,
                        Banner.spectral_subtraction, Banner.compression>>
    /\ filt.heap[filt.returned].num = 4

(***************************************************************************)
(* Template averaging: build_reference_library.extract_inning_examples and *)
(* extract_expanded_patterns.  In the former every labelled transition     *)
(* gives the slice audio_data[segment_start:segment_end] of its loaded     *)
(* window, which is shorter than asked when the window ends early.         *)
(***************************************************************************)
\* audio_data[segment_start:segment_end], segment_start counted from 0.
Slice(audio_data, segment_start, segment_end) ==
    SubSeq(audio_data, segment_start + 1, Min2(segment_end, Len(audio_data)))

\* Lines 56-104: the examples kept.  The try block is left when the window
\* does not load and when np.max is given an empty slice.
RECURSIVE AllExamples(_, _, _, _)
AllExamples(windows, i, segment_start, n) ==
    IF i > Len(windows) THEN <<>>
    ELSE LET inning_sound == Slice(windows[i].audio, segment_start, segment_start + n)
         IN (IF windows[i].exists /\ inning_sound # <<>>
             THEN <<[segment |-> inning_sound, offset |-> segment_start, transition |-> i]>>
             ELSE <<>>)
            \o AllExamples(windows, i + 1, segment_start, n)

SegmentStartChoices == {0, 1}

InitBuild ==
    /\ build \in { [pc |-> p, windows |-> w, segment_length |-> L, step |-> k,
                    best_segments |-> <<>>,
                    refined_pattern |-> [built |-> FALSE, v |-> <<>>, den |-> 1]] :
                    p \in {"new", "library"}, w \in [1..2 -> WindowChoices],
                    L \in SegmentLengths, k \in SegmentStartChoices }
    /\ build.pc = "library" \/ build.step = 1
    /\ peak = Idle
    /\ cons = Idle
    /\ lib = Idle
    /\ run = Idle
    /\ post = Idle
    /\ matcher = Idle
    /\ filt = Idle
    /\ gemini = Idle
    /\ pipeline = Idle

\* extract_inning_examples: step holds segment_start and segment_length
\* holds int(sound_duration * sample_rate); every window is loaded at 22050,
\* so the branch of line 124 is the one taken.
ExtractInningExamples ==
    /\ build.pc = "library"
    /\ LET all_examples == AllExamples(build.windows, 1, build.step, build.segment_length)
       IN build' = [build EXCEPT !.pc = "done",
                                 !.best_segments = all_examples,
                                 !.refined_pattern = RefinedPattern(all_examples)]
    /\ UNCHANGED <<peak, cons, lib, run, post, matcher, filt, gemini, pipeline>>

NextBuild == ExtractExpandedPatterns \/ ExtractInningExamples

SpecBuild == InitBuild /\ [][NextBuild]_vars

\* C28 (template averaging): the template merged from k >= 1 contributors
\* is as long as the shortest contributor, and its sample i is the mean of
\* the contributors' samples i, each contributor read from its start.
C28_TemplateAveraging ==
    (build.pc = "done" /\ build.best_segments # <<>>) =>
        LET segs == build.best_segments
            k == Len(segs)
            pattern == build.refined_pattern
        IN /\ pattern.built
           /\ \A c \in 1..k : Len(pattern.v) <= Len(segs[c].segment)
           /\ \E c \in 1..k : Len(pattern.v) = Len(segs[c].segment)
           /\ pattern.den > 0
           /\ \A i \in 1..Len(pattern.v) :
                 pattern.v[i] * k = pattern.den * SeqSum([c \in 1..k |-> segs[c].segment[i]])

\* Two contributors of different lengths whose first samples differ from
\* their last ones: the longer one is trimmed at its end.
C28_Witness ==
    /\ build.pc = "done"
    /\ Len(build.best_segments) = 2
    /\ Len(build.best_segments[1].segment) = 2
    /\ Len(build.best_segments[2].segment) = 1
    /\ build.best_segments[1].segment[1] # build.best_segments[1].segment[2]
    /\ build.refined_pattern.built
    /\ Len(build.refined_pattern.v) = 1

(***************************************************************************)
(* GeminiAnalyzer.analyze_video_with_retry.  An exception of the API call  *)
(* is what the handler reads of str(e): whether it holds '429',            *)
(* 'RESOURCE_EXHAUSTED' or 'quota', and the seconds of a 'retry in Ns'     *)
(* (matched = FALSE when the pattern is not found).                        *)
(***************************************************************************)
MaxRetries == 2

RetrySeconds == {0, 5}

ErrorStrings ==
    { [has_429 |-> a, has_resource_exhausted |-> b, has_quota |-> c,
       matched |-> m, seconds |-> n] :
        a \in BOOLEAN, b \in BOOLEAN, c \in BOOLEAN, m \in BOOLEAN, n \in RetrySeconds }

NoError ==
    [has_429 |-> FALSE, has_resource_exhausted |-> FALSE, has_quota |-> FALSE,
     matched |-> FALSE, seconds |-> 0]

\* Line 65: is_rate_limit
IsRateLimit(e) == e.has_429 \/ e.has_resource_exhausted \/ e.has_quota

\* The test of line 76 letting the attempt after the last one through.
LastAttemptLate(attempt, max_retries) == attempt > max_retries

\* Line 76: if attempt >= max_retries
LastAttempt(attempt, max_retries) == attempt >= max_retries

RECURSIVE Pow2(_)
Pow2(n) == IF n = 0 THEN 1 ELSE 2 * Pow2(n - 1)

\* Lines 69-89: retry_delay + 2 when a non-zero delay was parsed, otherwise
\* (2 ** attempt) * 10.
WaitTime(e, attempt) ==
    IF e.matched /\ e.seconds # 0 THEN e.seconds + 2 ELSE Pow2(attempt) * 10

(***************************************************************************)
(* Specification SpecGemini: one invocation.  pc = "loop" is the head of   *)
(* the for loop with `attempt` the next value of range(max_retries + 1);   *)
(* result is "text" for `return response.text` and "None" when the         *)
(* function ends without a return statement.                               *)
(***************************************************************************)
InitGemini ==
    /\ gemini \in { [pc |-> "loop", max_retries |-> r, attempt |-> 0, calls |-> 0,
                     outcome |-> "none", error |-> NoError, wait_time |-> 0,
                     result |-> "pending"] : r \in -1..MaxRetries }
    /\ peak = Idle
    /\ cons = Idle
    /\ lib = Idle
    /\ build = Idle
    /\ run = Idle
    /\ post = Idle
    /\ matcher = Idle
    /\ filt = Idle
    /\ pipeline = Idle

\* The loop has another value of attempt to run.
InLoop == gemini.pc = "loop" /\ gemini.attempt <= gemini.max_retries

\* Lines 46-59: the call succeeds and its text is returned.
CallReturns ==
    /\ InLoop
    /\ gemini' = [gemini EXCEPT !.pc = "returned", !.calls = @ + 1,
                                !.outcome = "text", !.error = NoError,
                                !.result = "text"]
    /\ UNCHANGED <<peak, cons, lib, build, run, post, matcher, filt, pipeline>>

\* Lines 61-89: a rate-limit error before the last attempt: sleep, then the
\* next attempt.
CallRateLimited ==
    /\ InLoop
    /\ \E e \in ErrorStrings :
          /\ IsRateLimit(e)
          /\ ~LastAttempt(gemini.attempt, gemini.max_retries)
          /\ gemini' = [gemini EXCEPT !.calls = @ + 1, !.outcome = "error", !.error = e,
                                      !.wait_time = WaitTime(e, gemini.attempt),
                                      !.attempt = @ + 1]
    /\ UNCHANGED <<peak, cons, lib, build, run, post, matcher, filt, pipeline>>

\* Lines 76-78: a rate-limit error on the last attempt is raised again.
CallRateLimitedLast ==
    /\ InLoop
    /\ \E e \in ErrorStrings :
          /\ IsRateLimit(e)
          /\ LastAttempt(gemini.attempt, gemini.max_retries)
          /\ gemini' = [gemini EXCEPT !.pc = "raised", !.calls = @ + 1,
                                      !.outcome = "error", !.error = e]
    /\ UNCHANGED <<peak, cons, lib, build, run, post, matcher, filt, pipeline>>

\* Lines 90-93: any other error is raised again at once.
CallFails ==
    /\ InLoop
    /\ \E e \in ErrorStrings :
          /\ ~IsRateLimit(e)
          /\ gemini' = [gemini EXCEPT !.pc = "raised", !.calls = @ + 1,
                                      !.outcome = "error", !.error = e]
    /\ UNCHANGED <<peak, cons, lib, build, run, post, matcher, filt, pipeline>>

\* range(max_retries + 1) is exhausted: the function ends without a return
\* statement and the caller gets None.
LoopExhausted ==
    /\ gemini.pc = "loop"
    /\ gemini.attempt > gemini.max_retries
    /\ gemini' = [gemini EXCEPT !.pc = "returned", !.result = "None"]
    /\ UNCHANGED <<peak, cons, lib, build, run, post, matcher, filt, pipeline>>

NextGemini ==
    \/ CallReturns
    \/ CallRateLimited
    \/ CallRateLimitedLast
    \/ CallFails
    \/ LoopExhausted

SpecGemini == InitGemini /\ [][NextGemini]_vars

\* C29 (bounded retry): for max_retries >= 0 at most max_retries + 1 calls
\* are made; a further call is made only after a rate-limit error; any
\* other error is raised at once; a rate-limit error of call
\* max_retries + 1 is raised; and the invocation ends by returning the
\* response text or by raising, never by returning without a response.
C29_BoundedRetry ==
    gemini.pc # "idle" /\ gemini.max_retries >= 0 =>
        /\ gemini.calls <= gemini.max_retries + 1
        /\ gemini.pc = "loop" =>
              /\ gemini.attempt = gemini.calls
              /\ gemini.attempt <= gemini.max_retries
              /\ gemini.calls >= 1 =>
                    (gemini.outcome = "error" /\ IsRateLimit(gemini.error))
        /\ (gemini.outcome = "error" /\ ~IsRateLimit(gemini.error)) => gemini.pc = "raised"
        /\ (gemini.outcome = "error" /\ gemini.calls = gemini.max_retries + 1)
              => gemini.pc = "raised"
        /\ gemini.pc = "raised" =>
              /\ gemini.outcome = "error"
              /\ IsRateLimit(gemini.error) => gemini.calls = gemini.max_retries + 1
        /\ gemini.pc = "returned" =>
              /\ gemini.outcome = "text"
              /\ gemini.result = "text"
        /\ gemini.pc \in {"loop", "returned", "raised"}

\* Every one of max_retries + 1 >= 2 calls was rate-limited and the last
\* error was raised.
C29_Witness ==
    /\ gemini.pc = "raised"
    /\ gemini.max_retries >= 1
    /\ gemini.calls = gemini.max_retries + 1
    /\ IsRateLimit(gemini.error)

(***************************************************************************)
(* DingerStatsPipeline.analyze_video over the processing_log table of      *)
(* DatabaseManager.  log maps a video to its row; a video without a row    *)
(* has status "absent".  update_processing_status catches every exception  *)
(* of the database, prints it and returns False, which analyze_video does  *)
(* not read: a write that fails leaves the row as it was.                  *)
(***************************************************************************)
MaxAttemptCount == 2

Videos == {"video_1", "video_2"}

NoRow == [status |-> "absent", error_message |-> "", attempt_count |-> 0]

LogRows ==
    { NoRow } \cup
    { [status |-> st, error_message |-> "", attempt_count |-> n] :
        st \in {"processing", "completed", "failed"}, n \in 1..MaxAttemptCount }

\* Lines 150-182: the row after update_processing_status(video_id, status,
\* error_message); ok = FALSE is the except branch.
update_processing_status(log, video_id, status, error_message, ok) ==
    IF ok
    THEN [log EXCEPT ![video_id] =
            [status |-> status, error_message |-> error_message,
             attempt_count |-> IF log[video_id].status = "absent" THEN 1
                               ELSE log[video_id].attempt_count + 1]]
    ELSE log

\* Both outcomes of storing the result recorded as 'completed'.
StatusAlwaysCompleted(success) ==
    [status |-> "completed", error_message |-> ""]

\* Lines 117-127: the status written after insert_game_result.
StatusAfterStore(success) ==
    IF success THEN [status |-> "completed", error_message |-> ""]
    ELSE [status |-> "failed", error_message |-> "Failed to store result"]

(***************************************************************************)
(* Specification SpecPipeline: one call of analyze_video.  returned is     *)
(* "True" or "False" once the call has returned; writes_ok tells whether   *)
(* every status write of the call succeeded so far.                        *)
(***************************************************************************)
InitPipeline ==
    /\ pipeline \in { [pc |-> "start", video_id |-> v, log |-> l, before |-> l,
                       result |-> "pending", success |-> FALSE, returned |-> "none",
                       writes_ok |-> TRUE] :
                       v \in Videos, l \in [Videos -> LogRows] }
    /\ peak = Idle
    /\ cons = Idle
    /\ lib = Idle
    /\ build = Idle
    /\ run = Idle
    /\ post = Idle
    /\ matcher = Idle
    /\ filt = Idle
    /\ gemini = Idle

\* The pipeline after a status write that succeeded or not.
StatusWrite(status, error_message, ok) ==
    [pipeline EXCEPT
       !.log = update_processing_status(pipeline.log, pipeline.video_id,
                                        status, error_message, ok),
       !.writes_ok = @ /\ ok]

\* Line 105.
MarkProcessing ==
    /\ pipeline.pc = "start"
    /\ \E ok \in BOOLEAN :
          pipeline' = [StatusWrite("processing", "", ok) EXCEPT !.pc = "analyzing"]
    /\ UNCHANGED <<peak, cons, lib, build, run, post, matcher, filt, gemini>>

\* Line 109: analyze_game_video returns (dict, text) or (None, message); it
\* catches every exception of the analysis itself.
AnalyzeGameVideo ==
    /\ pipeline.pc = "analyzing"
    /\ \E r \in {"dict", "None"} :
          pipeline' = [pipeline EXCEPT !.pc = "analyzed", !.result = r]
    /\ UNCHANGED <<peak, cons, lib, build, run, post, matcher, filt, gemini>>

\* Lines 111-115: insert_game_result returns True or False.
InsertGameResult ==
    /\ pipeline.pc = "analyzed"
    /\ pipeline.result = "dict"
    /\ \E success \in BOOLEAN :
          pipeline' = [pipeline EXCEPT !.pc = "stored", !.success = success]
    /\ UNCHANGED <<peak, cons, lib, build, run, post, matcher, filt, gemini>>

\* Lines 117-127: the status write, the print and the return; a print that
\* raises (the names come from the response) leads to the except branch.
ReportStore ==
    /\ pipeline.pc = "stored"
    /\ \E ok \in BOOLEAN : \E print_raises \in BOOLEAN :
          LET st == StatusAfterStore(pipeline.success)
          IN pipeline' = [StatusWrite(st.status, st.error_message, ok) EXCEPT
                            !.pc = IF print_raises THEN "except" ELSE "returned",
                            !.returned = IF print_raises THEN "none"
                                         ELSE IF pipeline.success THEN "True"
                                         ELSE "False"]
    /\ UNCHANGED <<peak, cons, lib, build, run, post, matcher, filt, gemini>>

\* Lines 128-131.
ReportAnalysisFailed ==
    /\ pipeline.pc = "analyzed"
    /\ pipeline.result = "None"
    /\ \E ok \in BOOLEAN : \E print_raises \in BOOLEAN :
          pipeline' = [StatusWrite("failed", "Gemini analysis failed", ok) EXCEPT
                         !.pc = IF print_raises THEN "except" ELSE "returned",
                         !.returned = IF print_raises THEN "none" ELSE "False"]
    /\ UNCHANGED <<peak, cons, lib, build, run, post, matcher, filt, gemini>>

\* Lines 133-137: except Exception; a print that raises here leaves
\* analyze_video with the exception.
HandleException ==
    /\ pipeline.pc = "except"
    /\ \E ok \in BOOLEAN : \E print_raises \in BOOLEAN :
          pipeline' = [StatusWrite("failed", "str(e)", ok) EXCEPT
                         !.pc = IF print_raises THEN "raised" ELSE "returned",
                         !.returned = IF print_raises THEN "none" ELSE "False"]
    /\ UNCHANGED <<peak, cons, lib, build, run, post, matcher, filt, gemini>>

NextPipeline ==
    \/ MarkProcessing
    \/ AnalyzeGameVideo
    \/ InsertGameResult
    \/ ReportStore
    \/ ReportAnalysisFailed
    \/ HandleException

SpecPipeline == InitPipeline /\ [][NextPipeline]_vars

\* C30 (processing status protocol): provided the status writes of the
\* call succeed, the video is recorded as 'processing' from the first
\* statement until the outcome is known; once analyze_video has returned
\* the status is 'completed' if it returned True and 'failed' if it
\* returned False, never 'processing'; and no other video's row changes.
C30_StatusProtocol ==
    (pipeline.pc # "idle" /\ pipeline.writes_ok) =>
        LET row == pipeline.log[pipeline.video_id]
        IN /\ pipeline.pc \in {"analyzing", "analyzed", "stored"} => row.status = "processing"
           /\ pipeline.pc = "returned" =>
                 /\ pipeline.returned \in {"True", "False"}
                 /\ pipeline.returned = "True" => row.status = "completed"
                 /\ pipeline.returned = "False" => row.status = "failed"
                 /\ row.status # "processing"
           /\ \A v \in Videos \ {pipeline.video_id} : pipeline.log[v] = pipeline.before[v]

\* The result was analysed, storing it failed, every status write
\* succeeded, and the call returned False for a video that was recorded as
\* failed before.
C30_Witness ==
    /\ pipeline.pc = "returned"
    /\ pipeline.writes_ok
    /\ pipeline.result = "dict"
    /\ ~pipeline.success
    /\ pipeline.returned = "False"
    /\ pipeline.before[pipeline.video_id].status = "failed"
    /\ pipeline.log[pipeline.video_id].error_message = "Failed to store result"
    /\ pipeline.log[pipeline.video_id].attempt_count
          = pipeline.before[pipeline.video_id].attempt_count + 2

====
